---- MODULE Spec2Model ----
(***************************************************************************)
(* Readiness analysis of Jira tickets: the standard analyzer               *)
(* (analyze_readiness.py, class ReadinessAnalyzer) and the FSEC analyzer   *)
(* (analyze_readiness_fsec.py, class FSECReadinessAnalyzer).               *)
(*                                                                         *)
(* Python strings are modelled as sequences of one-character strings, so   *)
(* that `kw in text`, str.lower(), str.strip(), len() and the regular      *)
(* expressions of the detectors are computed on characters, as the code    *)
(* computes them.  Scores are Python floats whose values are always whole  *)
(* numbers (70.0 - 25 * n, 3.0, 5.0 ...); they are modelled as integers.   *)
(* A Gap carries category, severity and title; its free-text description,  *)
(* questions and actions are fixed per title, except for the excerpt list  *)
(* of the ambiguity gaps, and are not modelled.                            *)
(***************************************************************************)
EXTENDS Integers, Sequences, FiniteSets, TLC

-----------------------------------------------------------------------------
(* Bounds of the model *)

\* number of fragments a modelled description is made of, at most
MaxDescFrags == 2

\* length of the keyword-free filler fragment
PadLen == 150

\* length of the gap lists handed to the scoring functions alone, at most
MaxGaps == 3

-----------------------------------------------------------------------------
(* Characters and strings *)

UpperCase == {"A", "B", "C", "D", "E", "F", "G", "H", "I", "J", "K", "L", "M",
              "N", "O", "P", "Q", "R", "S", "T", "U", "V", "W", "X", "Y", "Z"}

LowerOf == [c \in UpperCase |->
              CASE c = "A" -> "a" [] c = "B" -> "b" [] c = "C" -> "c" [] c = "D" -> "d"
                [] c = "E" -> "e" [] c = "F" -> "f" [] c = "G" -> "g" [] c = "H" -> "h"
                [] c = "I" -> "i" [] c = "J" -> "j" [] c = "K" -> "k" [] c = "L" -> "l"
                [] c = "M" -> "m" [] c = "N" -> "n" [] c = "O" -> "o" [] c = "P" -> "p"
                [] c = "Q" -> "q" [] c = "R" -> "r" [] c = "S" -> "s" [] c = "T" -> "t"
                [] c = "U" -> "u" [] c = "V" -> "v" [] c = "W" -> "w" [] c = "X" -> "x"
                [] c = "Y" -> "y" [] c = "Z" -> "z"]

LowerCase == {LowerOf[c] : c \in UpperCase}

Digits == {"0", "1", "2", "3", "4", "5", "6", "7", "8", "9"}

\* \w of the re module
WordChars == UpperCase \cup LowerCase \cup Digits \cup {"_"}

\* \s of the re module, and what str.strip() removes
SpaceChars == {" ", "\n", "\t", "\r"}

\* the character class of the two list patterns: "-", "*" and the bytes of a
\* bullet sign, which no modelled text contains
BulletChars == {"-", "*"}

\* str.lower()
Lower(s) == [i \in 1..Len(s) |-> IF s[i] \in UpperCase THEN LowerOf[s[i]] ELSE s[i]]

\* s[i:i+len(w)] == w
MatchAt(s, i, w) ==
    /\ i >= 1
    /\ i + Len(w) - 1 <= Len(s)
    /\ \A j \in 1..Len(w) : s[i + j - 1] = w[j]

\* `w in s`, for a w that is not empty
Contains(s, w) ==
    LET n == Len(w)
        c == w[1]
    IN  \E i \in 1..(Len(s) - n + 1) : s[i] = c /\ SubSeq(s, i, i + n - 1) = w

\* the characters of s
CharsOf(s) == {s[i] : i \in 1..Len(s)}

\* any(kw in s for kw in kws); a keyword with a character that s does not
\* have is not in s, which spares the search for it
AnyIn(kws, s) ==
    LET chars == CharsOf(s)
    IN  \E k \in 1..Len(kws) :
            /\ \A j \in 1..Len(kws[k]) : kws[k][j] \in chars
            /\ Contains(s, kws[k])

\* is the character at position i of s a word character (FALSE outside s)
IsWordAt(s, i) == i >= 1 /\ i <= Len(s) /\ s[i] \in WordChars

\* \b between positions i-1 and i of s
WordBoundary(s, i) == IsWordAt(s, i - 1) # IsWordAt(s, i)

\* \bw\b matches at position i of s
WordAt(s, i, w) ==
    /\ MatchAt(s, i, w)
    /\ WordBoundary(s, i)
    /\ WordBoundary(s, i + Len(w))

\* re.search(r'\b(w1|w2|...)\b', s, re.IGNORECASE), the alternatives in lower case
SearchWords(words, s) ==
    LET low == Lower(s)
        chars == CharsOf(low)
    IN  \E k \in 1..Len(words) :
            LET w == words[k]
                c == w[1]
            IN  /\ \A j \in 1..Len(w) : w[j] \in chars
                /\ \E i \in 1..(Len(low) - Len(w) + 1) : low[i] = c /\ WordAt(low, i, w)

\* str.strip()
Strip(s) ==
    LET solid == {i \in 1..Len(s) : s[i] \notin SpaceChars}
    IN  IF solid = {} THEN <<>>
        ELSE LET first == CHOOSE i \in solid : \A j \in solid : i <= j
                 last  == CHOOSE i \in solid : \A j \in solid : i >= j
             IN  SubSeq(s, first, last)

\* sep.join(parts)
RECURSIVE Join(_, _)
Join(parts, sep) ==
    IF Len(parts) = 0 THEN <<>>
    ELSE IF Len(parts) = 1 THEN parts[1]
    ELSE parts[1] \o sep \o Join(Tail(parts), sep)

\* positions p..q of s are all in the class cls (TRUE of an empty range)
AllIn(s, p, q, cls) == \A i \in p..q : s[i] \in cls

\* re.search(r'\bgiven\b.*\bwhen\b.*\bthen\b', s, re.DOTALL)
SearchGivenWhenThen(s) ==
    \E i \in 1..Len(s) :
        /\ s[i] = "g"
        /\ WordAt(s, i, <<"g", "i", "v", "e", "n">>)
        /\ \E j \in (i + 5)..Len(s) :
              /\ WordAt(s, j, <<"w", "h", "e", "n">>)
              /\ \E k \in (j + 4)..Len(s) : WordAt(s, k, <<"t", "h", "e", "n">>)

\* re.search(r'[-*.]\s*\[', s), "." standing for the bullet sign
SearchCheckbox(s) ==
    \E i \in 1..Len(s) :
        /\ s[i] \in BulletChars
        /\ \E j \in (i + 1)..Len(s) :
              /\ s[j] = "["
              /\ AllIn(s, i + 1, j - 1, SpaceChars)

\* re.search(r'^\s*[-*.]\s+', s, re.MULTILINE), "." standing for the bullet sign
SearchBulletLine(s) ==
    \E l \in 1..Len(s) :
        /\ l = 1 \/ s[l - 1] = "\n"
        /\ \E i \in l..(Len(s) - 1) :
              /\ s[i] \in BulletChars
              /\ s[i + 1] \in SpaceChars
              /\ AllIn(s, l, i - 1, SpaceChars)

\* re.search / re.findall of r'\b[A-Z]+-\d+\b' finds something in s
SearchIssueKey(s) ==
    \E i \in 1..Len(s) :
        /\ s[i] \in UpperCase
        /\ WordBoundary(s, i)
        /\ \E j \in i..(Len(s) - 2) :
              /\ s[j + 1] = "-"
              /\ AllIn(s, i, j, UpperCase)
              /\ \E k \in (j + 2)..Len(s) :
                    /\ AllIn(s, j + 2, k, Digits)
                    /\ WordBoundary(s, k + 1)

-----------------------------------------------------------------------------
(* Gaps *)

Categories == {"requirements", "technical", "testing", "context"}

Severities == {"HIGH", "MEDIUM", "LOW"}

\* Gap(category=..., severity=..., title=...)
Gap(category, severity, title) ==
    [category |-> category, severity |-> severity, title |-> title]

\* [g for g in gaps if g.category == category]
GapsOf(gaps, category) == SelectSeq(gaps, LAMBDA g : g.category = category)

\* sum(1 for g in gaps if g.severity == severity)
CountSeverity(gaps, severity) == Len(SelectSeq(gaps, LAMBDA g : g.severity = severity))

\* max(a, b) and min(a, b)
Max(a, b) == IF a >= b THEN a ELSE b

Min(a, b) == IF a <= b THEN a ELSE b

-----------------------------------------------------------------------------
(* ReadinessAnalyzer (analyze_readiness.py): keyword lists *)

VAGUE_WORDS == << <<"m", "a", "y", "b", "e">>, <<"p", "r", "o", "b", "a", "b", "l", "y">>, <<"m", "i", "g", "h", "t">>, <<"c", "o", "u", "l", "d">>, <<"p", "o", "s", "s", "i", "b", "l", "y">>,
                  <<"s", "o", "m", "e", "t", "h", "i", "n", "g", " ", "l", "i", "k", "e">>, <<"s", "i", "m", "i", "l", "a", "r", " ", "t", "o">>, <<"k", "i", "n", "d", " ", "o", "f">>, <<"e", "t", "c">>,
                  <<"a", "n", "d", " ", "s", "o", " ", "o", "n">> >>

INCOMPLETE_MARKERS == << <<"T", "B", "D">>, <<"T", "O", "D", "O">>, <<"?", "?", "?">>, <<"u", "n", "c", "l", "e", "a", "r">>, <<".", ".", ".">> >>

AC_KEYWORDS == << <<"a", "c", "c", "e", "p", "t", "a", "n", "c", "e", " ", "c", "r", "i", "t", "e", "r", "i", "a">>, <<"A", "C", ":">>, <<"d", "e", "f", "i", "n", "i", "t", "i", "o", "n", " ", "o", "f", " ", "d", "o", "n", "e">>,
                  <<"s", "u", "c", "c", "e", "s", "s", " ", "c", "r", "i", "t", "e", "r", "i", "a">>, <<"g", "i", "v", "e", "n">>, <<"w", "h", "e", "n">>, <<"t", "h", "e", "n">> >>

TECH_KEYWORDS == << <<"a", "p", "i">>, <<"e", "n", "d", "p", "o", "i", "n", "t">>, <<"d", "a", "t", "a", "b", "a", "s", "e">>, <<"t", "a", "b", "l", "e">>, <<"s", "c", "h", "e", "m", "a">>,
                    <<"c", "o", "m", "p", "o", "n", "e", "n", "t">>, <<"s", "e", "r", "v", "i", "c", "e">>, <<"a", "r", "c", "h", "i", "t", "e", "c", "t", "u", "r", "e">> >>

TEST_KEYWORDS == << <<"t", "e", "s", "t">>, <<"h", "a", "p", "p", "y", " ", "p", "a", "t", "h">>, <<"e", "d", "g", "e", " ", "c", "a", "s", "e">>, <<"e", "r", "r", "o", "r", " ", "h", "a", "n", "d", "l", "i", "n", "g">>,
                    <<"s", "c", "e", "n", "a", "r", "i", "o">>, <<"v", "e", "r", "i", "f", "y">> >>

SECURITY_KEYWORDS == << <<"p", "a", "s", "s", "w", "o", "r", "d">>, <<"t", "o", "k", "e", "n">>, <<"a", "u", "t", "h">>, <<"p", "e", "r", "m", "i", "s", "s", "i", "o", "n">>, <<"p", "i", "i">>,
                        <<"g", "d", "p", "r">>, <<"e", "n", "c", "r", "y", "p", "t", "i", "o", "n">>, <<"s", "e", "c", "u", "r", "i", "t", "y">> >>

\* the issue types the acceptance-criteria and technical-context checks skip
BugLikeTypes == { <<"b", "u", "g">>, <<"i", "n", "c", "i", "d", "e", "n", "t">>, <<"h", "o", "t", "f", "i", "x">> }

\* the issue types the test-scenario check and the AWS-context check skip
SpikeLikeTypes == { <<"s", "p", "i", "k", "e">>, <<"r", "e", "s", "e", "a", "r", "c", "h">> }

\* the alternatives of dep_pattern
DepWords == << <<"d", "e", "p", "e", "n", "d", "s", " ", "o", "n">>, <<"b", "l", "o", "c", "k", "e", "d", " ", "b", "y">>, <<"r", "e", "q", "u", "i", "r", "e", "s">>, <<"n", "e", "e", "d", "s">>, <<"a", "f", "t", "e", "r">> >>

\* the alternatives of additive_pattern
AdditiveWords == << <<"a", "l", "s", "o">>, <<"a", "d", "d", "i", "t", "i", "o", "n", "a", "l", "l", "y">>, <<"w", "e", " ", "s", "h", "o", "u", "l", "d", " ", "a", "l", "s", "o">>, <<"a", "n", "o", "t", "h", "e", "r", " ", "t", "h", "i", "n", "g">>,
                    <<"p", "l", "u", "s">> >>

\* the scope-creep check looks at tickets with at least this many comments
ScopeCreepMinComments == 5

\* ... of which at least this many add requirements
ScopeCreepMinAdditions == 3

-----------------------------------------------------------------------------
(* ReadinessAnalyzer: gap detection.  Each check returns a list of gaps. *)

\* mutant: an empty description is skipped instead of reported
Std_check_acceptance_criteria_skip_empty(description, issue_type) ==
    IF Len(description) = 0 THEN << >>
    ELSE IF /\ ~AnyIn(AC_KEYWORDS, Lower(description))
            /\ ~SearchGivenWhenThen(Lower(description))
            /\ ~(SearchCheckbox(description) \/ SearchBulletLine(description))
            /\ Lower(issue_type) \notin BugLikeTypes
         THEN << Gap("requirements", "HIGH", "Missing Acceptance Criteria") >>
         ELSE << >>

Std_check_acceptance_criteria(description, issue_type) ==
    LET desc_lower == Lower(description)
        has_ac_section == AnyIn(AC_KEYWORDS, desc_lower)
        has_gwt_format == SearchGivenWhenThen(desc_lower)
        has_criteria_list == SearchCheckbox(description) \/ SearchBulletLine(description)
    IN  IF /\ ~(has_ac_section \/ has_gwt_format \/ has_criteria_list)
           /\ Lower(issue_type) \notin BugLikeTypes
        THEN << Gap("requirements", "HIGH", "Missing Acceptance Criteria") >>
        ELSE << >>

\* mutant: the incomplete markers are looked up in the lower-cased text
Std_check_vague_language_lowered(text) ==
    LET text_lower == Lower(text)
    IN  IF AnyIn(VAGUE_WORDS, text_lower) \/ AnyIn(INCOMPLETE_MARKERS, text_lower)
        THEN << Gap("requirements", "HIGH", "Vague or Ambiguous Requirements") >>
        ELSE << >>

Std_check_vague_language(text) ==
    LET text_lower == Lower(text)
        \* re.findall of the word with its context never comes back empty for a
        \* word that is in text_lower: the pattern matches the word itself
        found_vague == AnyIn(VAGUE_WORDS, text_lower)
        found_incomplete == AnyIn(INCOMPLETE_MARKERS, text)
    IN  IF found_vague \/ found_incomplete
        THEN << Gap("requirements", "HIGH", "Vague or Ambiguous Requirements") >>
        ELSE << >>

\* mutant: the issue type is compared as written, not lower-cased
Std_check_technical_context_cased(description, issue_type) ==
    IF issue_type \in BugLikeTypes THEN << >>
    ELSE LET desc_lower == Lower(description)
             has_tech_keywords == AnyIn(TECH_KEYWORDS, desc_lower)
             has_tech_section ==
                 /\ Contains(desc_lower, <<"t", "e", "c", "h", "n", "i", "c", "a", "l">>)
                 /\ \/ Contains(desc_lower, <<"a", "p", "p", "r", "o", "a", "c", "h">>)
                    \/ Contains(desc_lower, <<"d", "e", "s", "i", "g", "n">>)
                    \/ Contains(desc_lower, <<"n", "o", "t", "e", "s">>)
         IN  IF ~(has_tech_keywords \/ has_tech_section)
             THEN << Gap("technical", "MEDIUM", "No Technical Context") >>
             ELSE << >>

Std_check_technical_context(description, issue_type) ==
    IF Lower(issue_type) \in BugLikeTypes THEN << >>
    ELSE LET desc_lower == Lower(description)
             has_tech_keywords == AnyIn(TECH_KEYWORDS, desc_lower)
             has_tech_section ==
                 /\ Contains(desc_lower, <<"t", "e", "c", "h", "n", "i", "c", "a", "l">>)
                 /\ \/ Contains(desc_lower, <<"a", "p", "p", "r", "o", "a", "c", "h">>)
                    \/ Contains(desc_lower, <<"d", "e", "s", "i", "g", "n">>)
                    \/ Contains(desc_lower, <<"n", "o", "t", "e", "s">>)
         IN  IF ~(has_tech_keywords \/ has_tech_section)
             THEN << Gap("technical", "MEDIUM", "No Technical Context") >>
             ELSE << >>

\* mutant: the issue links are not looked at
Std_check_dependencies_ignore_links(text, issue) ==
    LET has_dep_mention == SearchWords(DepWords, text)
        ticket_refs == SearchIssueKey(text)
    IN  IF has_dep_mention \/ ticket_refs
        THEN << Gap("technical", "MEDIUM", "Missing Dependencies") >>
        ELSE << >>

Std_check_dependencies(text, issue) ==
    LET has_dep_mention == SearchWords(DepWords, text)
        ticket_refs == SearchIssueKey(text)
        issue_links == issue.issuelinks
    IN  IF (has_dep_mention \/ ticket_refs) /\ Len(issue_links) = 0
        THEN << Gap("technical", "MEDIUM", "Missing Dependencies") >>
        ELSE << >>

Std_check_test_scenarios(text, issue_type) ==
    LET text_lower == Lower(text)
        has_test_keywords == AnyIn(TEST_KEYWORDS, text_lower)
        has_test_section ==
            /\ Contains(text_lower, <<"t", "e", "s", "t">>)
            /\ \/ Contains(text_lower, <<"s", "c", "e", "n", "a", "r", "i", "o">>)
               \/ Contains(text_lower, <<"c", "a", "s", "e">>)
               \/ Contains(text_lower, <<"p", "l", "a", "n">>)
    IN  IF /\ ~(has_test_keywords \/ has_test_section)
           /\ Lower(issue_type) \notin SpikeLikeTypes
        THEN << Gap("testing", "LOW", "No Test Scenarios") >>
        ELSE << >>

\* mutant: no minimum number of comments
Std_check_scope_creep_no_minimum(comments) ==
    LET comment_additions ==
                 Len(SelectSeq(comments, LAMBDA c : SearchWords(AdditiveWords, c)))
    IN  IF comment_additions >= ScopeCreepMinAdditions
        THEN << Gap("requirements", "MEDIUM", "Scope Growing in Comments") >>
        ELSE << >>

\* mutant: one gap for every comment that adds a requirement
Std_check_scope_creep_per_comment(comments) ==
    IF Len(comments) < ScopeCreepMinComments THEN << >>
    ELSE LET additions == SelectSeq(comments, LAMBDA c : SearchWords(AdditiveWords, c))
         IN  IF Len(additions) >= ScopeCreepMinAdditions
             THEN [i \in 1..Len(additions) |->
                      Gap("requirements", "MEDIUM", "Scope Growing in Comments")]
             ELSE << >>

Std_check_scope_creep(comments) ==
    IF Len(comments) < ScopeCreepMinComments THEN << >>
    ELSE LET comment_additions ==
                 Len(SelectSeq(comments, LAMBDA c : SearchWords(AdditiveWords, c)))
         IN  IF comment_additions >= ScopeCreepMinAdditions
             THEN << Gap("requirements", "MEDIUM", "Scope Growing in Comments") >>
             ELSE << >>

Std_check_security_context(text) ==
    LET text_lower == Lower(text)
        has_security_keywords == AnyIn(SECURITY_KEYWORDS, text_lower)
        has_security_section ==
            Contains(text_lower, <<"s", "e", "c", "u", "r", "i", "t", "y">>) \/ Contains(text_lower, <<"c", "o", "m", "p", "l", "i", "a", "n", "c", "e">>)
    IN  IF has_security_keywords /\ ~has_security_section
        THEN << Gap("context", "HIGH", "Security Review Needed") >>
        ELSE << >>

\* the length a description must exceed to count as detailed
DetailedDescriptionLen == 200

\* mutant: 'Dependencies linked' for ticket keys in the text instead of issue links
Std_identify_strengths_from_text(description, all_text, issue) ==
    (IF AnyIn(AC_KEYWORDS, Lower(description)) THEN << "Has acceptance criteria" >> ELSE << >>)
    \o (IF AnyIn(TEST_KEYWORDS, Lower(all_text)) THEN << "Test scenarios discussed" >> ELSE << >>)
    \o (IF AnyIn(TECH_KEYWORDS, Lower(description)) THEN << "Technical context provided" >> ELSE << >>)
    \o (IF SearchIssueKey(all_text) THEN << "Dependencies linked" >> ELSE << >>)
    \o (IF Len(description) > DetailedDescriptionLen THEN << "Detailed description" >> ELSE << >>)

Std_identify_strengths(description, all_text, issue) ==
    (IF AnyIn(AC_KEYWORDS, Lower(description)) THEN << "Has acceptance criteria" >> ELSE << >>)
    \o (IF AnyIn(TEST_KEYWORDS, Lower(all_text)) THEN << "Test scenarios discussed" >> ELSE << >>)
    \o (IF AnyIn(TECH_KEYWORDS, Lower(description)) THEN << "Technical context provided" >> ELSE << >>)
    \o (IF Len(issue.issuelinks) > 0 THEN << "Dependencies linked" >> ELSE << >>)
    \o (IF Len(description) > DetailedDescriptionLen THEN << "Detailed description" >> ELSE << >>)

-----------------------------------------------------------------------------
(* ReadinessAnalyzer: scoring *)

StdRequirementsMax == 70

StdTechnicalMax == 20

StdTestingMax == 5

StdContextMax == 5

StdThreshold == 75

StdRequirementsFloor == 50

\* mutant: the gaps of every category are deducted
Std_calculate_requirements_score_any_category(gaps) ==
    Max(0, StdRequirementsMax - CountSeverity(gaps, "HIGH") * 25
                              - CountSeverity(gaps, "MEDIUM") * 10)

\* mutant: a HIGH gap costs 40 points
Std_calculate_requirements_score_steep(gaps) ==
    LET req_gaps == GapsOf(gaps, "requirements")
    IN  Max(0, StdRequirementsMax - CountSeverity(req_gaps, "HIGH") * 40
                                  - CountSeverity(req_gaps, "MEDIUM") * 10)

\* mutant: the deductions of the FSEC analyzer
Std_calculate_requirements_score_fsec_deductions(gaps) ==
    LET req_gaps == GapsOf(gaps, "requirements")
    IN  Max(0, StdRequirementsMax - CountSeverity(req_gaps, "HIGH") * 15
                                  - CountSeverity(req_gaps, "MEDIUM") * 5)

Std_calculate_requirements_score(gaps) ==
    LET req_gaps == GapsOf(gaps, "requirements")
        high_severity == CountSeverity(req_gaps, "HIGH")
        medium_severity == CountSeverity(req_gaps, "MEDIUM")
    IN  Max(0, StdRequirementsMax - high_severity * 25 - medium_severity * 10)

\* mutant: a MEDIUM gap is added where it is to be deducted
Std_calculate_technical_score_sign(gaps) ==
    LET tech_gaps == GapsOf(gaps, "technical")
    IN  Max(0, StdTechnicalMax - CountSeverity(tech_gaps, "HIGH") * 15
                               + CountSeverity(tech_gaps, "MEDIUM") * 8)

Std_calculate_technical_score(gaps) ==
    LET tech_gaps == GapsOf(gaps, "technical")
        high_severity == CountSeverity(tech_gaps, "HIGH")
        medium_severity == CountSeverity(tech_gaps, "MEDIUM")
    IN  Max(0, StdTechnicalMax - high_severity * 15 - medium_severity * 8)

Std_calculate_testing_score(gaps) ==
    LET test_gaps == GapsOf(gaps, "testing")
    IN  IF Len(test_gaps) > 0 THEN 0 ELSE StdTestingMax

\* mutant: the gaps of every category are deducted
Std_calculate_context_score_any_category(gaps) ==
    Max(0, StdContextMax - CountSeverity(gaps, "HIGH") * 5)

Std_calculate_context_score(gaps) ==
    LET ctx_gaps == GapsOf(gaps, "context")
        high_severity == CountSeverity(ctx_gaps, "HIGH")
    IN  Max(0, StdContextMax - high_severity * 5)

-----------------------------------------------------------------------------
(* FSECReadinessAnalyzer (analyze_readiness_fsec.py): keyword lists *)

CRITICAL_VAGUE == << <<"T", "B", "D">>, <<"T", "O", "D", "O">>, <<"?", "?", "?">>, <<"u", "n", "c", "l", "e", "a", "r">>, <<"f", "i", "g", "u", "r", "e", " ", "i", "t", " ", "o", "u", "t">> >>

PROBLEM_INDICATORS == << <<"p", "r", "o", "b", "l", "e", "m">>, <<"i", "s", "s", "u", "e">>, <<"c", "u", "r", "r", "e", "n", "t", "l", "y">>, <<"n", "e", "e", "d", " ", "t", "o">>, <<"s", "h", "o", "u", "l", "d">>,
                         <<"r", "e", "q", "u", "e", "s", "t">>, <<"b", "r", "o", "k", "e", "n">>, <<"f", "a", "i", "l", "i", "n", "g">> >>

AWS_KEYWORDS == << <<"a", "c", "c", "o", "u", "n", "t">>, <<"l", "a", "m", "b", "d", "a">>, <<"s", "3">>, <<"i", "a", "m">>, <<"a", "p", "i">>, <<"p", "o", "l", "i", "c", "y">>, <<"k", "m", "s">>,
                   <<"e", "c", "2">>, <<"v", "p", "c">>, <<"s", "c", "p">>, <<"r", "o", "l", "e">>, <<"c", "l", "o", "u", "d", "f", "o", "r", "m", "a", "t", "i", "o", "n">>, <<"t", "e", "r", "r", "a", "f", "o", "r", "m">> >>

IMPLEMENTATION_KEYWORDS == << <<"c", "r", "e", "a", "t", "e">>, <<"u", "p", "d", "a", "t", "e">>, <<"m", "o", "d", "i", "f", "y">>, <<"d", "e", "p", "l", "o", "y">>, <<"c", "o", "n", "f", "i", "g", "u", "r", "e">>,
                              <<"i", "m", "p", "l", "e", "m", "e", "n", "t">>, <<"a", "d", "d">>, <<"r", "e", "m", "o", "v", "e">>, <<"m", "i", "g", "r", "a", "t", "e">>, <<"m", "o", "v", "e">> >>

FSEC_SECURITY_KEYWORDS == << <<"i", "a", "m">>, <<"p", "o", "l", "i", "c", "y">>, <<"r", "o", "l", "e">>, <<"p", "e", "r", "m", "i", "s", "s", "i", "o", "n">>, <<"a", "u", "t", "h">>,
                             <<"e", "n", "c", "r", "y", "p", "t", "i", "o", "n">>, <<"k", "m", "s">>, <<"s", "e", "c", "u", "r", "i", "t", "y">>, <<"c", "o", "m", "p", "l", "i", "a", "n", "c", "e">> >>

FSEC_TEST_KEYWORDS == << <<"t", "e", "s", "t">>, <<"v", "e", "r", "i", "f", "y">>, <<"v", "a", "l", "i", "d", "a", "t", "e">>, <<"c", "h", "e", "c", "k">> >>

\* a stripped description longer than this states a problem by its substance
ProblemSubstanceLen == 50

\* the description length that separates a short description from a substantial one
ShortDescriptionLen == 100

\* the security check looks only at texts shorter than this
SecurityTextLen == 300

-----------------------------------------------------------------------------
(* FSECReadinessAnalyzer: gap detection *)

FSEC_check_problem_statement(description) ==
    LET desc_lower == Lower(description)
        has_problem == AnyIn(PROBLEM_INDICATORS, desc_lower)
        has_substance == Len(Strip(description)) > ProblemSubstanceLen
    IN  IF ~(has_problem \/ has_substance)
        THEN << Gap("requirements", "HIGH", "Missing Problem Statement") >>
        ELSE << >>

FSEC_check_critical_ambiguity(text) ==
    LET \* re.findall of the marker with its context never comes back empty for a
        \* marker that is in text: the pattern matches the marker itself
        found_critical == AnyIn(CRITICAL_VAGUE, text)
    IN  IF found_critical
        THEN << Gap("requirements", "HIGH", "Critical Ambiguity") >>
        ELSE << >>

FSEC_check_aws_context(description, issue_type) ==
    IF Lower(issue_type) \in SpikeLikeTypes THEN << >>
    ELSE LET desc_lower == Lower(description)
             has_aws == AnyIn(AWS_KEYWORDS, desc_lower)
         IN  IF ~has_aws /\ Len(description) < ShortDescriptionLen
             THEN << Gap("technical", "MEDIUM", "Limited AWS Context") >>
             ELSE << >>

FSEC_check_implementation_clarity(description) ==
    LET desc_lower == Lower(description)
        has_action == AnyIn(IMPLEMENTATION_KEYWORDS, desc_lower)
        has_substance == Len(description) > ShortDescriptionLen
    IN  IF ~has_action /\ ~has_substance
        THEN << Gap("technical", "MEDIUM", "Unclear Implementation") >>
        ELSE << >>

\* 'github.com' in d or 'slack.com' in d or bool(re.search(r'\b[A-Z]+-\d+\b', d))
HasReferences(description) ==
    \/ Contains(description, <<"g", "i", "t", "h", "u", "b", ".", "c", "o", "m">>)
    \/ Contains(description, <<"s", "l", "a", "c", "k", ".", "c", "o", "m">>)
    \/ SearchIssueKey(description)

FSEC_check_references(description) ==
    IF ~HasReferences(description) /\ Len(description) < ShortDescriptionLen
    THEN << Gap("context", "LOW", "No References") >>
    ELSE << >>

\* mutant: the gap does not depend on a security keyword being there
FSEC_check_security_context_no_keyword(text) ==
    LET text_lower == Lower(text)
        has_security_section ==
            Contains(text_lower, <<"s", "e", "c", "u", "r", "i", "t", "y">>) \/ Contains(text_lower, <<"i", "a", "m", " ", "p", "o", "l", "i", "c", "y">>)
    IN  IF ~has_security_section /\ Len(text) < SecurityTextLen
        THEN << Gap("context", "MEDIUM", "Security Implications") >>
        ELSE << >>

FSEC_check_security_context(text) ==
    LET text_lower == Lower(text)
        has_security_keywords == AnyIn(FSEC_SECURITY_KEYWORDS, text_lower)
        has_security_section ==
            Contains(text_lower, <<"s", "e", "c", "u", "r", "i", "t", "y">>) \/ Contains(text_lower, <<"i", "a", "m", " ", "p", "o", "l", "i", "c", "y">>)
    IN  IF has_security_keywords /\ ~has_security_section /\ Len(text) < SecurityTextLen
        THEN << Gap("context", "MEDIUM", "Security Implications") >>
        ELSE << >>

FSEC_identify_strengths(description, all_text, issue) ==
    (IF AnyIn(PROBLEM_INDICATORS, Lower(description)) THEN << "Clear problem or request" >> ELSE << >>)
    \o (IF AnyIn(AWS_KEYWORDS, Lower(description)) THEN << "AWS infrastructure context" >> ELSE << >>)
    \o (IF AnyIn(IMPLEMENTATION_KEYWORDS, Lower(description)) THEN << "Clear implementation approach" >> ELSE << >>)
    \o (IF Contains(description, <<"g", "i", "t", "h", "u", "b", ".", "c", "o", "m">>) THEN << "Code references" >> ELSE << >>)
    \o (IF Contains(description, <<"s", "l", "a", "c", "k", ".", "c", "o", "m">>) THEN << "Slack thread linked" >> ELSE << >>)
    \o (IF Len(issue.issuelinks) > 0 THEN << "Related tickets linked" >> ELSE << >>)
    \o (IF Len(description) > DetailedDescriptionLen THEN << "Detailed description" >> ELSE << >>)

-----------------------------------------------------------------------------
(* FSECReadinessAnalyzer: scoring *)

FSECRequirementsMax == 40

FSECTechnicalMax == 40

FSECContextMax == 15

FSECTestingMax == 5

FSECThreshold == 60

FSECRequirementsFloor == 25

\* mutant: the deductions of the standard analyzer
FSEC_calculate_requirements_score_std_deductions(description, gaps) ==
    LET req_gaps == GapsOf(gaps, "requirements")
    IN  Max(0, FSECRequirementsMax - CountSeverity(req_gaps, "HIGH") * 25
                                   - CountSeverity(req_gaps, "MEDIUM") * 10)

FSEC_calculate_requirements_score(description, gaps) ==
    LET req_gaps == GapsOf(gaps, "requirements")
        high_severity == CountSeverity(req_gaps, "HIGH")
        medium_severity == CountSeverity(req_gaps, "MEDIUM")
    IN  Max(0, FSECRequirementsMax - high_severity * 15 - medium_severity * 5)

\* mutant: the score is not clamped from below
FSEC_calculate_technical_score_no_floor(description, issue, gaps) ==
    LET desc_lower == Lower(description)
        aws_points == IF AnyIn(AWS_KEYWORDS, desc_lower) THEN 15 ELSE 0
        impl_points == IF AnyIn(IMPLEMENTATION_KEYWORDS, desc_lower) THEN 15 ELSE 0
        ref_points == IF HasReferences(description) THEN 10 ELSE 0
        medium_severity == CountSeverity(GapsOf(gaps, "technical"), "MEDIUM")
    IN  Min(FSECTechnicalMax, aws_points + impl_points + ref_points - medium_severity * 5)

\* mutant: the score starts at the category maximum, as a deductive score does
FSEC_calculate_technical_score_from_max(description, issue, gaps) ==
    LET medium_severity == CountSeverity(GapsOf(gaps, "technical"), "MEDIUM")
    IN  Min(FSECTechnicalMax, Max(0, FSECTechnicalMax - medium_severity * 5))

\* mutant: the indicators are tested as alternatives (if / elif / elif)
FSEC_calculate_technical_score_elif(description, issue, gaps) ==
    LET desc_lower == Lower(description)
        points == IF AnyIn(AWS_KEYWORDS, desc_lower) THEN 15
                  ELSE IF AnyIn(IMPLEMENTATION_KEYWORDS, desc_lower) THEN 15
                  ELSE IF HasReferences(description) THEN 10
                  ELSE 0
        medium_severity == CountSeverity(GapsOf(gaps, "technical"), "MEDIUM")
    IN  Min(FSECTechnicalMax, Max(0, points - medium_severity * 5))

FSEC_calculate_technical_score(description, issue, gaps) ==
    LET desc_lower == Lower(description)
        aws_points == IF AnyIn(AWS_KEYWORDS, desc_lower) THEN 15 ELSE 0
        impl_points == IF AnyIn(IMPLEMENTATION_KEYWORDS, desc_lower) THEN 15 ELSE 0
        ref_points == IF HasReferences(description) THEN 10 ELSE 0
        tech_gaps == GapsOf(gaps, "technical")
        medium_severity == CountSeverity(tech_gaps, "MEDIUM")
        score == aws_points + impl_points + ref_points - medium_severity * 5
    IN  Min(FSECTechnicalMax, Max(0, score))

\* mutant: LOW gaps are not deducted
FSEC_calculate_context_score_no_low(description, gaps) ==
    LET ctx_gaps == GapsOf(gaps, "context")
    IN  Max(0, FSECContextMax - CountSeverity(ctx_gaps, "HIGH") * 10
                              - CountSeverity(ctx_gaps, "MEDIUM") * 5)

FSEC_calculate_context_score(description, gaps) ==
    LET ctx_gaps == GapsOf(gaps, "context")
        high_severity == CountSeverity(ctx_gaps, "HIGH")
        medium_severity == CountSeverity(ctx_gaps, "MEDIUM")
        low_severity == CountSeverity(ctx_gaps, "LOW")
    IN  Max(0, FSECContextMax - high_severity * 10 - medium_severity * 5 - low_severity * 2)

FSEC_calculate_testing_score(text) ==
    LET text_lower == Lower(text)
        has_test_mention == AnyIn(FSEC_TEST_KEYWORDS, text_lower)
    IN  IF has_test_mention \/ Contains(text_lower, <<"v", "e", "r", "i", "f", "y">>)
        THEN FSECTestingMax
        ELSE 3

-----------------------------------------------------------------------------
(* The two analyze methods *)

\* all_text = f"{summary}\n{description}\n" + "\n".join(comments)
AllText(summary, description, comments) ==
    summary \o <<"\n">> \o description \o <<"\n">> \o Join(comments, <<"\n">>)

\* mutant: the gap list is re-sorted by severity, HIGH first
Std_detect_by_severity(issue) ==
    LET all_text == AllText(issue.summary, issue.description, issue.comments)
        found == Std_check_acceptance_criteria(issue.description, issue.issuetype)
                 \o Std_check_vague_language(all_text)
                 \o Std_check_technical_context(issue.description, issue.issuetype)
                 \o Std_check_dependencies(all_text, issue)
                 \o Std_check_test_scenarios(all_text, issue.issuetype)
                 \o Std_check_scope_creep(issue.comments)
                 \o Std_check_security_context(all_text)
    IN  SelectSeq(found, LAMBDA g : g.severity = "HIGH")
        \o SelectSeq(found, LAMBDA g : g.severity = "MEDIUM")
        \o SelectSeq(found, LAMBDA g : g.severity = "LOW")

\* ReadinessAnalyzer.analyze: the gap detection, in the order of the calls
Std_detect(issue) ==
    LET all_text == AllText(issue.summary, issue.description, issue.comments)
    IN  Std_check_acceptance_criteria(issue.description, issue.issuetype)
        \o Std_check_vague_language(all_text)
        \o Std_check_technical_context(issue.description, issue.issuetype)
        \o Std_check_dependencies(all_text, issue)
        \o Std_check_test_scenarios(all_text, issue.issuetype)
        \o Std_check_scope_creep(issue.comments)
        \o Std_check_security_context(all_text)

\* mutant: the verdict ignores the requirements floor
Std_ready_no_floor(total_score, req_score) == total_score >= StdThreshold

\* "ready = total_score >= 75 and req_score >= 50"
Std_ready(total_score, req_score) ==
    total_score >= StdThreshold /\ req_score >= StdRequirementsFloor

\* ReadinessAnalyzer.analyze from the strengths on: the report built for a gap list
Std_report(issue, gaps) ==
    LET all_text == AllText(issue.summary, issue.description, issue.comments)
        strengths == Std_identify_strengths(issue.description, all_text, issue)
        req_score == Std_calculate_requirements_score(gaps)
        tech_score == Std_calculate_technical_score(gaps)
        test_score == Std_calculate_testing_score(gaps)
        ctx_score == Std_calculate_context_score(gaps)
        total_score == req_score + tech_score + test_score + ctx_score
        ready == Std_ready(total_score, req_score)
    IN  [mode |-> "STANDARD",
         summary |-> issue.summary,
         issue_type |-> issue.issuetype,
         status |-> issue.status,
         requirements_score |-> req_score,
         technical_score |-> tech_score,
         testing_score |-> test_score,
         context_score |-> ctx_score,
         total_score |-> total_score,
         gaps |-> gaps,
         strengths |-> strengths,
         ready_for_pointing |-> ready]

\* FSECReadinessAnalyzer.analyze: the gap detection, in the order of the calls
FSEC_detect(issue) ==
    LET all_text == AllText(issue.summary, issue.description, issue.comments)
    IN  FSEC_check_problem_statement(issue.description)
        \o FSEC_check_critical_ambiguity(all_text)
        \o FSEC_check_aws_context(issue.description, issue.issuetype)
        \o FSEC_check_implementation_clarity(issue.description)
        \o FSEC_check_references(issue.description)
        \o FSEC_check_security_context(all_text)

\* "ready = total_score >= 60 and req_score >= 25"
FSEC_ready(total_score, req_score) ==
    total_score >= FSECThreshold /\ req_score >= FSECRequirementsFloor

\* FSECReadinessAnalyzer.analyze from the strengths on: the report built for a gap list
FSEC_report(issue, gaps) ==
    LET all_text == AllText(issue.summary, issue.description, issue.comments)
        strengths == FSEC_identify_strengths(issue.description, all_text, issue)
        req_score == FSEC_calculate_requirements_score(issue.description, gaps)
        tech_score == FSEC_calculate_technical_score(issue.description, issue, gaps)
        ctx_score == FSEC_calculate_context_score(issue.description, gaps)
        test_score == FSEC_calculate_testing_score(all_text)
        total_score == req_score + tech_score + ctx_score + test_score
        ready == FSEC_ready(total_score, req_score)
    IN  [mode |-> "FSEC",
         summary |-> issue.summary,
         issue_type |-> issue.issuetype,
         status |-> issue.status,
         requirements_score |-> req_score,
         technical_score |-> tech_score,
         testing_score |-> test_score,
         context_score |-> ctx_score,
         total_score |-> total_score,
         gaps |-> gaps,
         strengths |-> strengths,
         ready_for_pointing |-> ready]

-----------------------------------------------------------------------------
(* The tickets the tracker may hold *)

\* a run of filler that contains no keyword, no marker and no white space
Pad == [i \in 1..PadLen |-> "x"]

DescFrags == { <<"T", "B", "D">>, <<"g", "i", "v", "e", "n">>, <<"a", "p", "i">>, <<"a", "d", "d">>, <<"a", "u", "t", "h">>, <<"s", "e", "c", "u", "r", "i", "t", "y">>,
               <<"F", "S", "E", "C", "-", "1">>, <<"t", "e", "s", "t">>, <<"i", "s", "s", "u", "e">>, Pad }

\* the sequences over S of length at most n
SeqsUpTo(S, n) == UNION { [1..k -> S] : k \in 0..n }

\* descriptions: up to MaxDescFrags fragments, separated by single spaces
Descriptions == { Join(fs, <<" ">>) : fs \in SeqsUpTo(DescFrags, MaxDescFrags) }

Summaries == { <<"f", "i", "x">>, <<"T", "B", "D">>, <<"a", "u", "t", "h">> }

IssueTypes == { <<"S", "t", "o", "r", "y">>, <<"T", "a", "s", "k">>, <<"B", "u", "g">>, <<"S", "p", "i", "k", "e">> }

\* a thread of n comments, the first k of which add a requirement
Thread(n, k) == [i \in 1..n |-> IF i <= k THEN <<"a", "l", "s", "o", " ", "x">> ELSE <<"o", "k">>]

CommentThreads == { Thread(0, 0), Thread(ScopeCreepMinComments, ScopeCreepMinAdditions) }

\* fields.issuelinks: no link, or one link
LinkLists == { << >>, << "FSEC-2" >> }

\* issue['fields'] as client.issue returns it
Issues ==
    [summary : Summaries, description : Descriptions, issuetype : IssueTypes,
     status : {"To Do"}, comments : CommentThreads, issuelinks : LinkLists]

\* the gap lists handed to the scoring functions alone
AnyGaps == [category : Categories, severity : Severities, title : {"gap"}]

GapLists == SeqsUpTo(AnyGaps, MaxGaps)

\* ... and the tickets they are scored with
ScoredIssues ==
    [summary : { <<"f", "i", "x">> },
     description : { << >>, Join(<< <<"a", "d", "d">>, <<"F", "S", "E", "C", "-", "1">>, <<"t", "e", "s", "t">> >>, <<" ">>),
                     Join(<< <<"a", "p", "i">>, <<"a", "d", "d">>, <<"F", "S", "E", "C", "-", "1">> >>, <<" ">>) },
     issuetype : { <<"T", "a", "s", "k">> }, status : {"To Do"},
     comments : { << >> }, issuelinks : { << >> }]

-----------------------------------------------------------------------------
(* State *)

VARIABLES
    issue,      \* the ticket snapshot client.issue(issue_key) returns
    pc,         \* "start", then "done"; "scoring", then "scored"
    gaps,       \* the gap list of the analysis
    report,     \* the ReadinessReport returned, NoReport before
    ticket,     \* the record the tracker holds for issue_key
    calls,      \* the operations invoked on the Jira client, in order
    exc,        \* the exception in flight, NoException if none
    exit_code,  \* the exit status of the process, NoExit while it runs
    workers,    \* the locals of concurrent analyze invocations
    batch       \* the run of apply_decisions_csv: its rows, decisions and stats

vars == <<issue, pc, gaps, report, ticket, calls, exc, exit_code, workers, batch>>

NoReport == [mode |-> "NONE"]

NoTicket == [key |-> "NONE"]

NoException == [type |-> "NONE", code |-> 0]

NoExit == -1

NoBatch == [mode |-> "NONE"]

\* what an analysis whose ticket is already fetched leaves alone
main_idle ==
    /\ ticket = NoTicket
    /\ calls = << >>
    /\ exc = NoException
    /\ exit_code = NoExit
    /\ workers = << >>
    /\ batch = NoBatch

Init ==
    /\ issue \in Issues
    /\ pc = "start"
    /\ gaps = << >>
    /\ report = NoReport
    /\ main_idle

\* ReadinessAnalyzer(client).analyze(issue_key)
AnalyzeStd ==
    /\ pc = "start"
    /\ gaps' = Std_detect(issue)
    /\ report' = Std_report(issue, gaps')
    /\ pc' = "done"
    /\ UNCHANGED <<issue, ticket, calls, exc, exit_code, workers, batch>>

\* FSECReadinessAnalyzer(client).analyze(issue_key)
AnalyzeFSEC ==
    /\ pc = "start"
    /\ gaps' = FSEC_detect(issue)
    /\ report' = FSEC_report(issue, gaps')
    /\ pc' = "done"
    /\ UNCHANGED <<issue, ticket, calls, exc, exit_code, workers, batch>>

Next == AnalyzeStd \/ AnalyzeFSEC

Spec == Init /\ [][Next]_vars

-----------------------------------------------------------------------------
(* The scoring functions alone, applied to arbitrary gap lists *)

InitScore ==
    /\ issue \in ScoredIssues
    /\ pc = "scoring"
    /\ gaps \in GapLists
    /\ report = NoReport
    /\ main_idle

\* the _calculate_*_score methods of ReadinessAnalyzer on the gap list
ScoreStd ==
    /\ pc = "scoring"
    /\ report' = Std_report(issue, gaps)
    /\ pc' = "scored"
    /\ UNCHANGED <<issue, gaps, ticket, calls, exc, exit_code, workers, batch>>

\* the _calculate_*_score methods of FSECReadinessAnalyzer on the gap list
ScoreFSEC ==
    /\ pc = "scoring"
    /\ report' = FSEC_report(issue, gaps)
    /\ pc' = "scored"
    /\ UNCHANGED <<issue, gaps, ticket, calls, exc, exit_code, workers, batch>>

NextScore == ScoreStd \/ ScoreFSEC

SpecScore == InitScore /\ [][NextScore]_vars

-----------------------------------------------------------------------------
(* Properties *)

\* the report of a finished analysis is the standard / the FSEC analyzer's
StdDone == pc = "done" /\ report.mode = "STANDARD"

FSECDone == pc = "done" /\ report.mode = "FSEC"

\* the combined text of the ticket
IssueText == AllText(issue.summary, issue.description, issue.comments)

\* the number of gaps of a category and a severity in a gap list
NumGaps(gs, category, severity) ==
    Cardinality({i \in 1..Len(gs) : gs[i].category = category /\ gs[i].severity = severity})

\* the number of gaps of a category in a gap list
NumGapsIn(gs, category) == Cardinality({i \in 1..Len(gs) : gs[i].category = category})

\* a gap list holds a gap of this title
HasGap(gs, title) == \E i \in 1..Len(gs) : gs[i].title = title

\* C1: in every report of either analyzer each category score lies between 0
\* and the maximum of its category (standard 70/20/5/5, FSEC 40/40/15/5 for
\* requirements/technical/context/testing), the total is the sum of the four
\* category scores, and the total lies between 0 and 100.
C1_ScoresInRange ==
    pc = "done" =>
        LET std == report.mode = "STANDARD"
        IN  /\ report.requirements_score \in 0..(IF std THEN 70 ELSE 40)
            /\ report.technical_score \in 0..(IF std THEN 20 ELSE 40)
            /\ report.testing_score \in 0..5
            /\ report.context_score \in 0..(IF std THEN 5 ELSE 15)
            /\ report.total_score = report.requirements_score + report.technical_score
                                    + report.testing_score + report.context_score
            /\ report.total_score \in 0..100

\* C1 witness: an FSEC report whose technical score sits on the lower end of
\* its range while two technical gaps are deducted, and a total in between
C1_Witness ==
    /\ FSECDone
    /\ report.technical_score = 0
    /\ NumGapsIn(report.gaps, "technical") = 2
    /\ report.total_score > 0
    /\ report.total_score < 100

\* C2: the verdict of every report is exactly (total >= threshold and
\* requirements score >= floor), with 75 / 50 for the standard analyzer and
\* 60 / 25 for the FSEC analyzer.
C2_Verdict ==
    pc = "done" =>
        IF report.mode = "STANDARD"
        THEN report.ready_for_pointing
                 = (report.total_score >= 75 /\ report.requirements_score >= 50)
        ELSE report.ready_for_pointing
                 = (report.total_score >= 60 /\ report.requirements_score >= 25)

\* C2 witness: a standard report whose total reaches the threshold while the
\* requirements score is under the floor, and which is therefore not ready
C2_Witness ==
    /\ StdDone
    /\ report.total_score >= 75
    /\ report.requirements_score < 50
    /\ ~report.ready_for_pointing

C4_AdditiveZero ==
    ( /\ FSECDone
      /\ ~AnyIn(AWS_KEYWORDS, Lower(issue.description))
      /\ ~AnyIn(IMPLEMENTATION_KEYWORDS, Lower(issue.description))
      /\ ~HasReferences(issue.description)
      /\ NumGapsIn(report.gaps, "technical") = 0 )
    => report.technical_score = 0

\* C4 witness: an FSEC report on a long description without any indicator,
\* which has no technical gap
C4_Witness ==
    /\ FSECDone
    /\ ~AnyIn(AWS_KEYWORDS, Lower(issue.description))
    /\ ~AnyIn(IMPLEMENTATION_KEYWORDS, Lower(issue.description))
    /\ ~HasReferences(issue.description)
    /\ NumGapsIn(report.gaps, "technical") = 0
    /\ report.technical_score = 0

\* C5: for every gap list the requirements score is
\* max(0, 70 - 25 * HIGH - 10 * MEDIUM) for the standard analyzer and
\* max(0, 40 - 15 * HIGH - 5 * MEDIUM) for the FSEC analyzer, HIGH and MEDIUM
\* counting the requirements gaps of that severity only.
C5_RequirementsScore ==
    pc = "scored" =>
        LET high == NumGaps(gaps, "requirements", "HIGH")
            medium == NumGaps(gaps, "requirements", "MEDIUM")
            std == 70 - 25 * high - 10 * medium
            fsec == 40 - 15 * high - 5 * medium
        IN  IF report.mode = "STANDARD"
            THEN report.requirements_score = (IF std < 0 THEN 0 ELSE std)
            ELSE report.requirements_score = (IF fsec < 0 THEN 0 ELSE fsec)

\* C5 witness: a scored gap list with three HIGH requirements gaps, where the
\* deductions exceed the maximum, next to it gaps of other categories
C5_Witness ==
    /\ pc = "scored"
    /\ report.mode = "STANDARD"
    /\ NumGaps(gaps, "requirements", "HIGH") = 2
    /\ NumGaps(gaps, "technical", "HIGH") = 1
    /\ report.requirements_score = 20

\* C6: the FSEC technical score of a report is
\* clamp(15 * [AWS keyword] + 15 * [implementation keyword] + 10 * [reference]
\*       - 5 * (number of technical gaps), 0, 40), each indicator taken from the
\* description on its own.
C6_TechnicalScore ==
    FSECDone =>
        LET aws == IF AnyIn(AWS_KEYWORDS, Lower(issue.description)) THEN 15 ELSE 0
            impl == IF AnyIn(IMPLEMENTATION_KEYWORDS, Lower(issue.description)) THEN 15 ELSE 0
            refs == IF \/ Contains(issue.description, <<"g", "i", "t", "h", "u", "b", ".", "c", "o", "m">>)
                       \/ Contains(issue.description, <<"s", "l", "a", "c", "k", ".", "c", "o", "m">>)
                       \/ SearchIssueKey(issue.description)
                    THEN 10 ELSE 0
            raw == aws + impl + refs - 5 * NumGapsIn(report.gaps, "technical")
        IN  report.technical_score = (IF raw < 0 THEN 0 ELSE IF raw > 40 THEN 40 ELSE raw)

\* C6 witness: an FSEC report with two indicators present and no technical gap
C6_Witness ==
    /\ FSECDone
    /\ AnyIn(AWS_KEYWORDS, Lower(issue.description))
    /\ AnyIn(IMPLEMENTATION_KEYWORDS, Lower(issue.description))
    /\ ~HasReferences(issue.description)
    /\ report.technical_score = 30

\* the precondition of C7: a Story with an empty description and no comments
C7_Ticket ==
    /\ StdDone
    /\ issue.description = << >>
    /\ issue.comments = << >>
    /\ issue.issuetype = <<"S", "t", "o", "r", "y">>

\* C7 as stated: under the standard analyzer a Story with an empty description
\* and no comments, whatever its summary, gets the 'Missing Acceptance
\* Criteria' gap and a requirements score of 45.
C7_Original ==
    C7_Ticket =>
        /\ HasGap(report.gaps, "Missing Acceptance Criteria")
        /\ report.requirements_score = 45

\* C7 as amended: under the standard analyzer a Story with an empty
\* description and no comments always gets the 'Missing Acceptance Criteria'
\* gap, and its requirements score is 45 provided the summary has no vague
\* word and no incomplete marker (otherwise the ambiguity gap takes it to 20).
C7_EmptyStory ==
    C7_Ticket =>
        /\ HasGap(report.gaps, "Missing Acceptance Criteria")
        /\ IF \/ AnyIn(VAGUE_WORDS, Lower(issue.summary))
              \/ AnyIn(INCOMPLETE_MARKERS, issue.summary)
           THEN report.requirements_score = 20
           ELSE report.requirements_score = 45

\* C7 witness: such a Story with a summary free of vague language
C7_Witness ==
    /\ C7_Ticket
    /\ ~AnyIn(VAGUE_WORDS, Lower(issue.summary))
    /\ ~AnyIn(INCOMPLETE_MARKERS, issue.summary)
    /\ report.requirements_score = 45

\* the precondition of C8: a Task with an empty description and no comments
C8_Ticket ==
    /\ FSECDone
    /\ issue.description = << >>
    /\ issue.comments = << >>
    /\ issue.issuetype = <<"T", "a", "s", "k">>

\* C8 as stated: under the FSEC analyzer a Task with an empty description and
\* no comments gets the 'Missing Problem Statement' gap and a requirements
\* score of 25, and its verdict equals (total >= 60).
C8_Original ==
    C8_Ticket =>
        /\ HasGap(report.gaps, "Missing Problem Statement")
        /\ report.requirements_score = 25
        /\ report.ready_for_pointing = (report.total_score >= 60)

\* C8 as amended: under the FSEC analyzer a Task with an empty description and
\* no comments always gets the 'Missing Problem Statement' gap and a verdict
\* equal to (total >= 60), and its requirements score is 25 provided the
\* summary has none of the critical markers (otherwise the ambiguity gap takes
\* it to 10).
C8_EmptyTask ==
    C8_Ticket =>
        /\ HasGap(report.gaps, "Missing Problem Statement")
        /\ report.ready_for_pointing = (report.total_score >= 60)
        /\ IF AnyIn(CRITICAL_VAGUE, issue.summary)
           THEN report.requirements_score = 10
           ELSE report.requirements_score = 25

\* C8 witness: such a Task with a summary free of critical markers
C8_Witness ==
    /\ C8_Ticket
    /\ ~AnyIn(CRITICAL_VAGUE, issue.summary)
    /\ report.requirements_score = 25

\* the gaps of a list other than those of one title
GapsBut(gs, title) == SelectSeq(gs, LAMBDA g : g.title # title)

\* C9: when the description contains "TBD", the report of either analyzer
\* holds exactly one ambiguity gap ('Vague or Ambiguous Requirements' /
\* 'Critical Ambiguity'), it is a HIGH requirements gap, and the requirements
\* score is exactly 25 (standard, out of 70) or 15 (FSEC, out of 40) lower than
\* what the other gaps of the report leave of the maximum.
C9_TBD ==
    (pc = "done" /\ Contains(issue.description, <<"T", "B", "D">>)) =>
        LET std == report.mode = "STANDARD"
            title == IF std THEN "Vague or Ambiguous Requirements" ELSE "Critical Ambiguity"
            mine == SelectSeq(report.gaps, LAMBDA g : g.title = title)
            others == GapsBut(report.gaps, title)
            high == NumGaps(others, "requirements", "HIGH")
            medium == NumGaps(others, "requirements", "MEDIUM")
        IN  /\ Len(mine) = 1
            /\ mine[1].severity = "HIGH"
            /\ mine[1].category = "requirements"
            /\ NumGaps(report.gaps, "requirements", "HIGH") = high + 1
            /\ IF std
               THEN report.requirements_score = (70 - 25 * high - 10 * medium) - 25
               ELSE report.requirements_score = (40 - 15 * high - 5 * medium) - 15

\* C9 witness: a standard report on a description with "TBD" that also lacks
\* acceptance criteria, so that the ambiguity gap takes 45 down to 20
C9_Witness ==
    /\ StdDone
    /\ Contains(issue.description, <<"T", "B", "D">>)
    /\ HasGap(report.gaps, "Missing Acceptance Criteria")
    /\ report.requirements_score = 20

\* C10: a ticket whose combined text has none of the analyzer's security
\* keywords never gets the security gap ('Security Review Needed' /
\* 'Security Implications').
C10_NoSecurityKeyword ==
    /\ (StdDone /\ ~AnyIn(SECURITY_KEYWORDS, Lower(IssueText)))
           => ~HasGap(report.gaps, "Security Review Needed")
    /\ (FSECDone /\ ~AnyIn(FSEC_SECURITY_KEYWORDS, Lower(IssueText)))
           => ~HasGap(report.gaps, "Security Implications")

\* C10 witness: an FSEC report on a short text without security keyword and
\* without security section, where only the missing keyword keeps the gap away
C10_Witness ==
    /\ FSECDone
    /\ ~AnyIn(FSEC_SECURITY_KEYWORDS, Lower(IssueText))
    /\ ~Contains(Lower(IssueText), <<"s", "e", "c", "u", "r", "i", "t", "y">>)
    /\ ~Contains(Lower(IssueText), <<"i", "a", "m", " ", "p", "o", "l", "i", "c", "y">>)
    /\ Len(IssueText) < 300
    /\ ~HasGap(report.gaps, "Security Implications")

-----------------------------------------------------------------------------
(* The record of the tracker: optional fields absent or null *)

\* a key the dict does not hold, a key whose value is None, a key with a value
Missing == [kind |-> "missing"]

Null == [kind |-> "null"]

Val(v) == [kind |-> "value", value |-> v]

\* dict.get(key, default)
Get(entry, default) == IF entry.kind = "missing" THEN Val(default) ELSE entry

\* str(None), what an f-string makes of a None
NoneText == <<"N", "o", "n", "e">>

\* analyze, "Extract key fields" to "Combine all text": the locals, or the
\* exception the extraction raises
ExtractFields(fields) ==
    LET description == IF fields.description.kind = "value"
                       THEN fields.description.value ELSE << >>
        summary == Get(fields.summary, << >>)
        issuetype == Get(fields.issuetype, [name |-> Missing])
        issue_type == Get(issuetype.value.name, <<"U", "n", "k", "n", "o", "w", "n">>)
        status_dict == Get(fields.status, [name |-> Missing])
        status == Get(status_dict.value.name, "Unknown")
        has_comments == /\ fields.comment.kind # "missing"
                        /\ fields.comment.value.comments.kind # "missing"
        listed == fields.comment.value.comments.value
        bodies == IF has_comments
                  THEN [i \in 1..Len(listed) |-> Get(listed[i].body, << >>)]
                  ELSE << >>
        issuelinks == IF fields.issuelinks.kind = "value"
                      THEN fields.issuelinks.value ELSE << >>
    IN  IF issuetype.kind = "null" \/ status_dict.kind = "null"
        THEN [raised |-> "AttributeError"]
        ELSE IF \/ fields.comment.kind = "null"
                \/ (has_comments /\ fields.comment.value.comments.kind = "null")
             THEN [raised |-> "TypeError"]
        ELSE IF \E i \in 1..Len(bodies) : bodies[i].kind = "null"
             THEN [raised |-> "TypeError"]
        ELSE IF issue_type.kind = "null"
             THEN [raised |-> "AttributeError"]
        ELSE [raised |-> "none",
              issue |-> [summary |-> IF summary.kind = "null" THEN NoneText
                                     ELSE summary.value,
                         description |-> description,
                         issuetype |-> issue_type.value,
                         status |-> IF status.kind = "null" THEN "None"
                                    ELSE status.value,
                         comments |-> [i \in 1..Len(bodies) |-> bodies[i].value],
                         issuelinks |-> issuelinks]]

\* the tickets of the tracker, each optional field present, absent or null
RawSummaries == { Missing, Null, Val(<<"f", "i", "x">>) }

RawDescriptions ==
    { Missing, Null, Val(<<"g", "i", "v", "e", "n", " ", "a", "p", "i", " ", "t", "e", "s", "t", " ", "i", "s", "s", "u", "e", " ", "a", "d", "d">>), Val(<<"a", "p", "i", " ", "t", "e", "s", "t">>),
      Val(<<"a", "p", "i", " ", "a", "d", "d", " ", "F", "S", "E", "C", "-", "1", " ", "T", "B", "D">>) }

RawIssueTypes ==
    { Missing, Null, Val([name |-> Missing]), Val([name |-> Null]),
      Val([name |-> Val(<<"S", "t", "o", "r", "y">>)]) }

RawStatuses ==
    { Missing, Null, Val([name |-> Null]), Val([name |-> Val("To Do")]) }

RawComments ==
    { Missing, Null, Val([comments |-> Missing]), Val([comments |-> Val(<< >>)]),
      Val([comments |-> Val(<< [body |-> Val(<<"o", "k">>)], [body |-> Missing] >>)]),
      Val([comments |-> Val(<< [body |-> Null] >>)]) }

RawLinks == { Missing, Null, Val(<< "FSEC-2" >>) }

RawFields ==
    [summary : RawSummaries, description : RawDescriptions, issuetype : RawIssueTypes,
     status : RawStatuses, comment : RawComments, issuelinks : RawLinks]

RawTickets == [key : {"FSEC-1"}, fields : RawFields]

-----------------------------------------------------------------------------
(* main: client, analysis, exit status *)

\* what client.issue(issue_key) does: return the record, or raise
FetchOutcomes == {"ok", "HTTPError", "ConnectionError"}

\* raise SystemExit(code), what sys.exit(code) does
SystemExit(code) == [type |-> "SystemExit", code |-> code]

\* raise of an exception of this class
Raise(type) == [type |-> type, code |-> 0]

\* the classes "except Exception" does not catch
BaseOnlyExceptions == {"SystemExit", "KeyboardInterrupt", "GeneratorExit"}

\* mutant: a bare except clause, which catches SystemExit as well
Main_except_bare(e) == SystemExit(2)

\* main, "except Exception as e: ... sys.exit(2)": the exception that leaves
\* the try statement when e is raised in its body
Main_except(e) ==
    IF e.type \notin BaseOnlyExceptions THEN SystemExit(2) ELSE e

\* mutant: a failed fetch is tried once more
FetchCalls_retry(log, key, outcome) ==
    IF outcome = "ok"
    THEN Append(log, [op |-> "issue", key |-> key, raised |-> outcome])
    ELSE log \o << [op |-> "issue", key |-> key, raised |-> outcome],
                   [op |-> "issue", key |-> key, raised |-> outcome] >>

\* mutant: the analysis leaves a comment on the ticket
FetchCalls_and_comment(log, key, outcome) ==
    log \o << [op |-> "issue", key |-> key, raised |-> outcome],
              [op |-> "issue_add_comment", key |-> key, raised |-> "ok"] >>

\* analyze, "issue = self.client.issue(issue_key)": the one operation invoked
\* on the client
FetchCalls(log, key, outcome) ==
    Append(log, [op |-> "issue", key |-> key, raised |-> outcome])

InitMain ==
    /\ ticket \in RawTickets
    /\ pc = "main"
    /\ issue = NoTicket
    /\ gaps = << >>
    /\ report = NoReport
    /\ calls = << >>
    /\ exc = NoException
    /\ exit_code = NoExit
    /\ workers = << >>
    /\ batch = NoBatch

\* get_jira_client(): ValueError without JIRA_API_TOKEN
GetJiraClient ==
    /\ pc = "main"
    /\ \E token \in BOOLEAN :
           IF token
           THEN pc' = "client" /\ UNCHANGED exc
           ELSE pc' = "raised" /\ exc' = Raise("ValueError")
    /\ UNCHANGED <<issue, gaps, report, ticket, calls, exit_code, workers, batch>>

\* analyzer.analyze(issue_key) of analyze_readiness.py, within main
MainAnalyzeStd ==
    /\ pc = "client"
    /\ \E outcome \in FetchOutcomes :
           /\ calls' = FetchCalls(calls, ticket.key, outcome)
           /\ IF outcome # "ok"
              THEN /\ exc' = Raise(outcome)
                   /\ pc' = "raised"
                   /\ UNCHANGED <<issue, gaps, report>>
              ELSE LET x == ExtractFields(ticket.fields)
                   IN  IF x.raised # "none"
                       THEN /\ exc' = Raise(x.raised)
                            /\ pc' = "raised"
                            /\ UNCHANGED <<issue, gaps, report>>
                       ELSE /\ issue' = x.issue
                            /\ gaps' = Std_detect(x.issue)
                            /\ report' = Std_report(x.issue, gaps')
                            /\ pc' = "analyzed"
                            /\ UNCHANGED exc
    /\ UNCHANGED <<ticket, exit_code, workers, batch>>

\* analyzer.analyze(issue_key) of analyze_readiness_fsec.py, within main
MainAnalyzeFSEC ==
    /\ pc = "client"
    /\ \E outcome \in FetchOutcomes :
           /\ calls' = FetchCalls(calls, ticket.key, outcome)
           /\ IF outcome # "ok"
              THEN /\ exc' = Raise(outcome)
                   /\ pc' = "raised"
                   /\ UNCHANGED <<issue, gaps, report>>
              ELSE LET x == ExtractFields(ticket.fields)
                   IN  IF x.raised # "none"
                       THEN /\ exc' = Raise(x.raised)
                            /\ pc' = "raised"
                            /\ UNCHANGED <<issue, gaps, report>>
                       ELSE /\ issue' = x.issue
                            /\ gaps' = FSEC_detect(x.issue)
                            /\ report' = FSEC_report(x.issue, gaps')
                            /\ pc' = "analyzed"
                            /\ UNCHANGED exc
    /\ UNCHANGED <<ticket, exit_code, workers, batch>>

\* main, the output and "sys.exit(0 if report.ready_for_pointing else 1)"
MainExit ==
    /\ pc = "analyzed"
    /\ exc' = SystemExit(IF report.ready_for_pointing THEN 0 ELSE 1)
    /\ pc' = "raised"
    /\ UNCHANGED <<issue, gaps, report, ticket, calls, exit_code, workers, batch>>

\* main, the except clause and the end of the process
MainExcept ==
    /\ pc = "raised"
    /\ exc' = Main_except(exc)
    /\ exit_code' = exc'.code
    /\ pc' = "exited"
    /\ UNCHANGED <<issue, gaps, report, ticket, calls, workers, batch>>

NextMain == GetJiraClient \/ MainAnalyzeStd \/ MainAnalyzeFSEC \/ MainExit \/ MainExcept

SpecMain == InitMain /\ [][NextMain]_vars

-----------------------------------------------------------------------------
(* The scoring functions on gaps of any severity and category string *)

\* the longest loose gap list scored
MaxLooseGaps == 2

\* Gap.severity and Gap.category are plain str fields: any string is accepted
LooseCategories == Categories \cup {"security"}

LooseSeverities == Severities \cup {"CRITICAL"}

LooseGaps == [category : LooseCategories, severity : LooseSeverities, title : {"gap"}]

LooseGapLists == SeqsUpTo(LooseGaps, MaxLooseGaps)

InitLoose ==
    /\ issue \in ScoredIssues
    /\ pc = "scoring"
    /\ gaps \in LooseGapLists
    /\ report = NoReport
    /\ main_idle

SpecLoose == InitLoose /\ [][NextScore]_vars

-----------------------------------------------------------------------------
(* Comment threads around the scope-creep thresholds *)

\* the longest comment thread analyzed
MaxComments == 5

\* comments with and without a word of additive_pattern
AdditiveBodies == { <<"a", "l", "s", "o", " ", "x">>, <<"P", "l", "u", "s", " ", "y">> }

PlainBodies == { <<"o", "k">>, <<"a", "l", "s", "o", "x">> }

CommentLists == SeqsUpTo(AdditiveBodies \cup PlainBodies, MaxComments)

CreepIssues ==
    [summary : { <<"f", "i", "x">> }, description : { <<"g", "i", "v", "e", "n", " ", "a", "p", "i", " ", "t", "e", "s", "t">> },
     issuetype : { <<"S", "t", "o", "r", "y">> }, status : {"To Do"},
     comments : CommentLists, issuelinks : { << >> }]

InitCreep ==
    /\ issue \in CreepIssues
    /\ pc = "start"
    /\ gaps = << >>
    /\ report = NoReport
    /\ main_idle

SpecCreep == InitCreep /\ [][Next]_vars

-----------------------------------------------------------------------------
(* Order of the gaps *)

\* the gap titles of the standard detectors, in the order analyze calls them
StdDetectorOrder ==
    << "Missing Acceptance Criteria", "Vague or Ambiguous Requirements",
       "No Technical Context", "Missing Dependencies", "No Test Scenarios",
       "Scope Growing in Comments", "Security Review Needed" >>

\* the gap titles of the FSEC detectors, in the order analyze calls them
FSECDetectorOrder ==
    << "Missing Problem Statement", "Critical Ambiguity", "Limited AWS Context",
       "Unclear Implementation", "No References", "Security Implications" >>

\* the position of the detector that emits gaps of this title, 0 if none does
DetectorRank(order, title) ==
    IF \E k \in 1..Len(order) : order[k] = title
    THEN CHOOSE k \in 1..Len(order) : order[k] = title
    ELSE 0

\* C11: the gaps of every report stand in the order in which analyze runs the
\* detectors (standard: acceptance criteria, vague language, technical
\* context, dependencies, test scenarios, scope creep, security; FSEC: problem
\* statement, critical ambiguity, AWS context, implementation clarity,
\* references, security): every gap is one of the profile's detectors', and of
\* any two gaps of a report the one of the earlier detector comes first,
\* whatever their severities.
C11_DetectorOrder ==
    pc = "done" =>
        LET order == IF report.mode = "STANDARD" THEN StdDetectorOrder ELSE FSECDetectorOrder
            gs == report.gaps
        IN  /\ \A i \in 1..Len(gs) : DetectorRank(order, gs[i].title) > 0
            /\ \A i \in 1..Len(gs) : \A j \in (i + 1)..Len(gs) :
                   DetectorRank(order, gs[i].title) < DetectorRank(order, gs[j].title)

\* C11 witness: a standard report whose gap list has a MEDIUM gap, a LOW gap
\* and then a HIGH gap, so that no sorting by severity gives this order
C11_Witness ==
    /\ StdDone
    /\ \E i \in 1..Len(report.gaps) : \E j \in (i + 1)..Len(report.gaps) :
       \E k \in (j + 1)..Len(report.gaps) :
           /\ report.gaps[i].severity = "MEDIUM"
           /\ report.gaps[j].severity = "LOW"
           /\ report.gaps[k].severity = "HIGH"

-----------------------------------------------------------------------------
(* Exit status, failures and the frame of main *)

\* analyze has returned a report to main
Analyzed == report.mode # "NONE"

\* the fetch of this run came back with the record
FetchOk == Len(calls) > 0 /\ calls[Len(calls)].raised = "ok"

\* the fetch of this run raised
FetchFailed == Len(calls) > 0 /\ calls[Len(calls)].raised # "ok"

\* C12: the process ends with status 0 exactly when the analysis returned a
\* report that is ready, with 1 exactly when it returned a report that is not
\* ready, and with 2 exactly when an exception (of the client construction, of
\* the fetch or of the analysis) reached the handler of main instead of a
\* report; the SystemExit of the 0 / 1 exit is never turned into 2 by that
\* handler.
C12_ExitStatus ==
    pc = "exited" =>
        /\ exit_code \in {0, 1, 2}
        /\ (exit_code = 0) = (Analyzed /\ report.ready_for_pointing)
        /\ (exit_code = 1) = (Analyzed /\ ~report.ready_for_pointing)
        /\ (exit_code = 2) = ~Analyzed

\* C12 witness: a run whose report is ready has passed the handler of main
\* and ended with status 0
C12_Witness ==
    /\ pc = "exited"
    /\ Analyzed
    /\ report.ready_for_pointing
    /\ exc = SystemExit(0)
    /\ exit_code = 0

\* C14: every fetched ticket in which optional fields (description, summary,
\* issue type, status, comment container, a comment body, issue links) are
\* absent - key missing or value null - is analyzed to a report, in which the
\* absent summary is the empty string and the absent type and status names
\* are 'Unknown'; analyze never raises on it.
C14_AbsentFieldsTolerated ==
    FetchOk =>
        /\ Analyzed
        /\ ticket.fields.summary.kind # "value" => report.summary = << >>
        /\ ticket.fields.issuetype.kind # "value" => report.issue_type = <<"U", "n", "k", "n", "o", "w", "n">>
        /\ ticket.fields.status.kind # "value" => report.status = "Unknown"

\* C15: when client.issue raises, analyze has invoked it once and invokes
\* nothing more, builds no gap list and no report, and the exception that
\* leaves analyze is the one client.issue raised; no run fetches twice, and a
\* run that has a report has fetched exactly once.
C15_FetchFailurePropagates ==
    /\ Len(calls) <= 1
    /\ Analyzed => Len(calls) = 1
    /\ FetchFailed =>
           /\ ~Analyzed
           /\ gaps = << >>
           /\ pc \in {"raised", "exited"}
           /\ pc = "raised" => exc = Raise(calls[1].raised)
           /\ pc = "exited" => exit_code = 2

\* C15 witness: the fetch raised HTTPError and that exception is in flight out
\* of analyze, with no report
C15_Witness ==
    /\ pc = "raised"
    /\ Len(calls) = 1
    /\ calls[1].raised = "HTTPError"
    /\ exc = Raise("HTTPError")
    /\ ~Analyzed

\* C18: no step of a run changes the record of the ticket, and the only
\* operation a step invokes on the client is the read issue(issue_key) of the
\* analyzed ticket.
C18_ReadOnly ==
    [][/\ ticket' = ticket
       /\ \A i \in 1..Len(calls') : calls'[i].op = "issue" /\ calls'[i].key = ticket.key]_vars

\* C18 witness: the report of a fetched ticket is built, one read was invoked
C18_Witness ==
    /\ pc = "analyzed"
    /\ Analyzed
    /\ calls = << [op |-> "issue", key |-> ticket.key, raised |-> "ok"] >>

-----------------------------------------------------------------------------
(* Unknown severities and categories *)

\* a gap list holds a severity or a category outside the documented values
HasUnknown(gs) ==
    \E i \in 1..Len(gs) : gs[i].severity \notin Severities \/ gs[i].category \notin Categories

\* C13: a scoring run over a gap list that holds a severity other than
\* HIGH / MEDIUM / LOW or a category other than requirements / technical /
\* testing / context fails: it returns no scored report.
C13_UnknownFailsFast ==
    (pc = "scored" /\ HasUnknown(gaps)) => report.mode = "NONE"

-----------------------------------------------------------------------------
(* Gaps and strengths *)

\* a report lists this strength
HasStrength(r, s) == \E i \in 1..Len(r.strengths) : r.strengths[i] = s

\* a report holds one of the four gaps together with its related strength
RelatedPair(r) ==
    \/ HasGap(r.gaps, "Missing Acceptance Criteria") /\ HasStrength(r, "Has acceptance criteria")
    \/ HasGap(r.gaps, "No Technical Context") /\ HasStrength(r, "Technical context provided")
    \/ HasGap(r.gaps, "No Test Scenarios") /\ HasStrength(r, "Test scenarios discussed")
    \/ HasGap(r.gaps, "Missing Dependencies") /\ HasStrength(r, "Dependencies linked")

\* C17 as stated: there is a ticket whose standard report holds one of the
\* pairs ('Missing Acceptance Criteria', 'Has acceptance criteria'),
\* ('No Technical Context', 'Technical context provided'), ('No Test
\* Scenarios', 'Test scenarios discussed'), ('Missing Dependencies',
\* 'Dependencies linked').
C17_Original ==
    \E t \in Issues : RelatedPair(Std_report(t, Std_detect(t)))

\* C17: strengths are computed from the ticket and not from the gap list, so
\* a standard report can hold a gap together with a strength of another
\* topic; it never holds one of the four gaps together with its related
\* strength, because each of these strengths is listed on the very signal
\* whose absence the gap requires.
C17_NoRelatedPair ==
    StdDone => ~RelatedPair(report)

\* C17 witness: a standard report with the acceptance-criteria gap and the
\* test-scenario gap next to the strengths of technical context and links
C17_Witness ==
    /\ StdDone
    /\ HasGap(report.gaps, "Missing Acceptance Criteria")
    /\ HasGap(report.gaps, "No Test Scenarios")
    /\ HasStrength(report, "Technical context provided")
    /\ HasStrength(report, "Dependencies linked")

-----------------------------------------------------------------------------
(* Scope creep *)

\* the number of comments of the ticket that hold additive language
NumAdditive == Cardinality({i \in 1..Len(issue.comments) : issue.comments[i] \in AdditiveBodies})

\* C20: the standard report holds the scope-creep gap exactly when the ticket
\* has at least 5 comments of which at least 3 hold additive language (also,
\* additionally, we should also, another thing, plus, as whole words in any
\* case); the gap is MEDIUM and of category requirements and occurs once.
\* With 4 comments or fewer, or with fewer than 3 additive ones, there is none.
C20_ScopeCreep ==
    StdDone =>
        /\ HasGap(report.gaps, "Scope Growing in Comments")
               = (Len(issue.comments) >= 5 /\ NumAdditive >= 3)
        /\ \A i \in 1..Len(report.gaps) :
               report.gaps[i].title = "Scope Growing in Comments" =>
                   /\ report.gaps[i].severity = "MEDIUM"
                   /\ report.gaps[i].category = "requirements"
                   /\ \A j \in 1..Len(report.gaps) :
                          report.gaps[j].title = "Scope Growing in Comments" => j = i

\* C20 witness: 5 comments, exactly 3 of them additive, and the gap is there
C20_Witness ==
    /\ StdDone
    /\ Len(issue.comments) = 5
    /\ NumAdditive = 3
    /\ HasGap(report.gaps, "Scope Growing in Comments")

-----------------------------------------------------------------------------
(* Concurrent invocations of analyze *)

\* the number of invocations that run interleaved
MaxWorkers == 2

\* the k-th detector call of ReadinessAnalyzer.analyze
Std_detector(k, t) ==
    LET all_text == AllText(t.summary, t.description, t.comments)
    IN  CASE k = 1 -> Std_check_acceptance_criteria(t.description, t.issuetype)
          [] k = 2 -> Std_check_vague_language(all_text)
          [] k = 3 -> Std_check_technical_context(t.description, t.issuetype)
          [] k = 4 -> Std_check_dependencies(all_text, t)
          [] k = 5 -> Std_check_test_scenarios(all_text, t.issuetype)
          [] k = 6 -> Std_check_scope_creep(t.comments)
          [] k = 7 -> Std_check_security_context(all_text)

\* the k-th detector call of FSECReadinessAnalyzer.analyze
FSEC_detector(k, t) ==
    LET all_text == AllText(t.summary, t.description, t.comments)
    IN  CASE k = 1 -> FSEC_check_problem_statement(t.description)
          [] k = 2 -> FSEC_check_critical_ambiguity(all_text)
          [] k = 3 -> FSEC_check_aws_context(t.description, t.issuetype)
          [] k = 4 -> FSEC_check_implementation_clarity(t.description)
          [] k = 5 -> FSEC_check_references(t.description)
          [] k = 6 -> FSEC_check_security_context(all_text)

\* the number of detector calls of a profile
NumDetectors(mode) ==
    IF mode = "STANDARD" THEN Len(StdDetectorOrder) ELSE Len(FSECDetectorOrder)

\* mutant: the gap list is one object shared by the invocations
ExtendGaps_shared(ws, w, found) ==
    [v \in 1..Len(ws) |->
        IF v = w THEN [ws[v] EXCEPT !.gaps = @ \o found, !.step = @ + 1]
        ELSE [ws[v] EXCEPT !.gaps = @ \o found]]

\* "gaps.extend(...)" of invocation w: gaps is a local of that invocation
ExtendGaps(ws, w, found) ==
    [ws EXCEPT ![w].gaps = @ \o found, ![w].step = @ + 1]

\* the tickets the invocations analyze
ConcIssues ==
    { [summary |-> <<"T", "B", "D">>, description |-> << >>, issuetype |-> <<"S", "t", "o", "r", "y">>,
       status |-> "To Do", comments |-> Thread(ScopeCreepMinComments, ScopeCreepMinAdditions),
       issuelinks |-> << >>],
      [summary |-> <<"f", "i", "x">>, description |-> <<"g", "i", "v", "e", "n", " ", "a", "p", "i", " ", "t", "e", "s", "t", " ", "i", "s", "s", "u", "e", " ", "a", "d", "d">>,
       issuetype |-> <<"T", "a", "s", "k">>, status |-> "To Do", comments |-> << >>,
       issuelinks |-> << "FSEC-2" >>] }

\* an invocation that has fetched its ticket and run no detector yet
NewWorkers ==
    [issue : ConcIssues, mode : {"STANDARD", "FSEC"}, step : {0},
     gaps : {<< >>}, report : {NoReport}]

InitConc ==
    /\ workers \in [1..MaxWorkers -> NewWorkers]
    /\ pc = "concurrent"
    /\ issue = NoTicket
    /\ gaps = << >>
    /\ report = NoReport
    /\ ticket = NoTicket
    /\ calls = << >>
    /\ exc = NoException
    /\ exit_code = NoExit
    /\ batch = NoBatch

\* one invocation runs its next detector
WorkerDetect ==
    /\ pc = "concurrent"
    /\ \E w \in 1..Len(workers) :
           /\ workers[w].step < NumDetectors(workers[w].mode)
           /\ workers' = ExtendGaps(workers, w,
                  IF workers[w].mode = "STANDARD"
                  THEN Std_detector(workers[w].step + 1, workers[w].issue)
                  ELSE FSEC_detector(workers[w].step + 1, workers[w].issue))
    /\ UNCHANGED <<issue, pc, gaps, report, ticket, calls, exc, exit_code, batch>>

\* one invocation, its detectors run, computes strengths, scores and verdict
WorkerReport ==
    /\ pc = "concurrent"
    /\ \E w \in 1..Len(workers) :
           /\ workers[w].step = NumDetectors(workers[w].mode)
           /\ workers' = [workers EXCEPT
                  ![w].report = IF workers[w].mode = "STANDARD"
                                THEN Std_report(workers[w].issue, workers[w].gaps)
                                ELSE FSEC_report(workers[w].issue, workers[w].gaps),
                  ![w].step = @ + 1]
    /\ UNCHANGED <<issue, pc, gaps, report, ticket, calls, exc, exit_code, batch>>

NextConc == WorkerDetect \/ WorkerReport

SpecConc == InitConc /\ [][NextConc]_vars

\* the report of an invocation that runs alone
ReportAlone(mode, t) ==
    IF mode = "STANDARD" THEN Std_report(t, Std_detect(t)) ELSE FSEC_report(t, FSEC_detect(t))

\* C19: whatever the interleaving of the detector and report steps of the
\* invocations, each invocation that has finished holds the report that an
\* invocation of the same profile running alone builds for its ticket, and
\* each invocation's gap list holds only gaps of its own detectors.
C19_Isolation ==
    \A w \in 1..Len(workers) :
        /\ workers[w].step > NumDetectors(workers[w].mode) =>
               workers[w].report = ReportAlone(workers[w].mode, workers[w].issue)
        /\ workers[w].step <= NumDetectors(workers[w].mode) =>
               /\ workers[w].report = NoReport
               /\ workers[w].gaps = SubSeq(ReportAlone(workers[w].mode, workers[w].issue).gaps,
                                           1, Len(workers[w].gaps))

\* C19 witness: one invocation has returned a report with gaps while another
\* one, of the other ticket and the other profile, is between two detectors
C19_Witness ==
    \E v, w \in 1..Len(workers) :
        /\ workers[v].step > NumDetectors(workers[v].mode)
        /\ Len(workers[v].report.gaps) >= 3
        /\ workers[w].step \in 1..(NumDetectors(workers[w].mode) - 1)
        /\ workers[w].issue # workers[v].issue
        /\ workers[w].mode # workers[v].mode
        /\ Len(workers[w].gaps) >= 1

-----------------------------------------------------------------------------
(* Tickets around the dependency detector and the type exemptions *)

DetectSummaries == { <<"f", "i", "x">>, <<"a", "f", "t", "e", "r", " ", "t", "e", "s", "t">> }

DetectDescriptions ==
    { << >>, <<"n", "e", "e", "d", "s", " ", "y">>, <<"n", "e", "e", "d", "s", "y">>, <<"F", "S", "E", "C", "-", "1">>, <<"f", "s", "e", "c", "-", "1">>, <<"F", "S", "E", "C", "-", "1", "a">>,
      <<"B", "l", "o", "c", "k", "e", "d", " ", "B", "y", " ", "z">>, <<"a", "p", "i">>, <<"g", "i", "v", "e", "n", " ", "t", "e", "s", "t">> }

DetectTypes ==
    { <<"B", "u", "g">>, <<"B", "U", "G">>, <<"I", "n", "c", "i", "d", "e", "n", "t">>, <<"h", "o", "t", "f", "i", "x">>, <<"S", "p", "i", "k", "e">>, <<"R", "E", "S", "E", "A", "R", "C", "H">>,
      <<"S", "t", "o", "r", "y">>, <<"B", "u", "g", "f", "i", "x">> }

DetectComments == { << >>, << <<"r", "e", "q", "u", "i", "r", "e", "s", " ", "q">> >>, << <<"o", "k">> >> }

DetectIssues ==
    [summary : DetectSummaries, description : DetectDescriptions,
     issuetype : DetectTypes, status : {"To Do"},
     comments : DetectComments, issuelinks : LinkLists]

InitDetect ==
    /\ issue \in DetectIssues
    /\ pc = "start"
    /\ gaps = << >>
    /\ report = NoReport
    /\ main_idle

SpecDetect == InitDetect /\ [][Next]_vars

-----------------------------------------------------------------------------
(* apply_decisions_csv.py *)

\* the longest CSV file applied, in data rows
MaxRows == 2

\* str.upper()
Upper(s) ==
    [i \in 1..Len(s) |->
        IF s[i] \in LowerCase THEN CHOOSE c \in UpperCase : LowerOf[c] = s[i] ELSE s[i]]

\* valid_decisions of read_decisions_csv
VALID_DECISIONS == << <<"C", "L", "O", "S", "E">>, <<"U", "N", "B", "L", "O", "C", "K">>, <<"D", "O", "C", "U", "M", "E", "N", "T">>, <<"K", "E", "E", "P">> >>

\* DecisionRow(key=..., decision=..., row_number=...)
DecisionRow(key, decision, row_number) ==
    [key |-> key, decision |-> decision, row_number |-> row_number]

\* read_decisions_csv: the rows with a key and a valid decision other than
\* KEEP, cells stripped and the decision upper-cased, numbered from 2
read_decisions_csv(rows) ==
    LET parsed == [i \in 1..Len(rows) |->
                      DecisionRow(Strip(rows[i].Key), Upper(Strip(rows[i].Decision)), i + 1)]
        kept(d) == /\ d.key # << >>
                   /\ d.decision # << >>
                   /\ \E k \in 1..Len(VALID_DECISIONS) : VALID_DECISIONS[k] = d.decision
                   /\ d.decision # <<"K", "E", "E", "P">>
    IN  SelectSeq(parsed, kept)

\* a call of a Jira client method, returning or raising
Call(op, key, raised) == [op |-> op, key |-> key, raised |-> raised]

\* how the tracker answers the calls made for one decision: the number of the
\* call that raises (0: none), and whether a Done transition is offered
TrackerAnswers == [fail_at : 0..3, has_done : BOOLEAN]

\* apply_decision_close: the calls made and the result returned
apply_decision_close(key, dry_run, answer) ==
    IF dry_run THEN [ops |-> << >>, success |-> TRUE]
    ELSE IF answer.fail_at = 1
    THEN [ops |-> << Call("issue_add_comment", key, "Exception") >>, success |-> FALSE]
    ELSE IF answer.fail_at = 2
    THEN [ops |-> << Call("issue_add_comment", key, "ok"),
                     Call("get_issue_transitions", key, "Exception") >>,
          success |-> FALSE]
    ELSE IF ~answer.has_done
    THEN [ops |-> << Call("issue_add_comment", key, "ok"),
                     Call("get_issue_transitions", key, "ok") >>,
          success |-> TRUE]
    ELSE IF answer.fail_at = 3
    THEN [ops |-> << Call("issue_add_comment", key, "ok"),
                     Call("get_issue_transitions", key, "ok"),
                     Call("set_issue_status", key, "Exception") >>,
          success |-> FALSE]
    ELSE [ops |-> << Call("issue_add_comment", key, "ok"),
                     Call("get_issue_transitions", key, "ok"),
                     Call("set_issue_status", key, "ok") >>,
          success |-> TRUE]

\* apply_decision_unblock: the calls made and the result returned
apply_decision_unblock(key, dry_run, answer) ==
    IF dry_run THEN [ops |-> << >>, success |-> TRUE]
    ELSE IF answer.fail_at = 1
    THEN [ops |-> << Call("issue_add_comment", key, "Exception") >>, success |-> FALSE]
    ELSE IF answer.fail_at = 2
    THEN [ops |-> << Call("issue_add_comment", key, "ok"),
                     Call("set_issue_status", key, "Exception") >>,
          success |-> FALSE]
    ELSE [ops |-> << Call("issue_add_comment", key, "ok"),
                     Call("set_issue_status", key, "ok") >>,
          success |-> TRUE]

\* mutant: the comment is added in a dry run as well
apply_decision_document_always(key, dry_run, answer) ==
    IF answer.fail_at = 1
    THEN [ops |-> << Call("issue_add_comment", key, "Exception") >>, success |-> FALSE]
    ELSE [ops |-> << Call("issue_add_comment", key, "ok") >>, success |-> TRUE]

\* apply_decision_document: the calls made and the result returned
apply_decision_document(key, dry_run, answer) ==
    IF dry_run THEN [ops |-> << >>, success |-> TRUE]
    ELSE IF answer.fail_at = 1
    THEN [ops |-> << Call("issue_add_comment", key, "Exception") >>, success |-> FALSE]
    ELSE [ops |-> << Call("issue_add_comment", key, "ok") >>, success |-> TRUE]

\* the CSV files applied: rows of a Key cell and a Decision cell
CsvFiles ==
    SeqsUpTo([Key : { <<"F", "S", "E", "C", "-", "1">>, <<" ">> },
              Decision : { <<"C", "L", "O", "S", "E">>, <<" ", "c", "l", "o", "s", "e", " ">>, <<"U", "N", "B", "L", "O", "C", "K">>, <<"D", "O", "C", "U", "M", "E", "N", "T">>, <<"K", "E", "E", "P">>,
                           << >>, <<"D", "E", "L", "E", "T", "E">> }],
             MaxRows)

InitCsv ==
    /\ batch \in [rows : CsvFiles, dry_run : BOOLEAN, decisions : {<< >>},
                  next : {1},
                  stats : {[success |-> 0, failed |-> 0, skipped |-> 0]}]
    /\ pc = "csv"
    /\ issue = NoTicket
    /\ gaps = << >>
    /\ report = NoReport
    /\ ticket = NoTicket
    /\ calls = << >>
    /\ exc = NoException
    /\ exit_code = NoExit
    /\ workers = << >>

\* main: read_decisions_csv, and sys.exit(0) when nothing is actionable
ReadDecisions ==
    /\ pc = "csv"
    /\ batch' = [batch EXCEPT !.decisions = read_decisions_csv(batch.rows)]
    /\ IF batch'.decisions = << >>
       THEN /\ exc' = Main_except(SystemExit(0))
            /\ exit_code' = exc'.code
            /\ pc' = "exited"
       ELSE /\ pc' = "preview"
            /\ UNCHANGED <<exc, exit_code>>
    /\ UNCHANGED <<issue, gaps, report, ticket, calls, workers>>

\* main: the preview, the confirmation (asked unless --dry-run or --yes) and
\* get_jira_client()
ConfirmAndConnect ==
    /\ pc = "preview"
    /\ \E yes \in BOOLEAN, confirmed \in BOOLEAN, token \in BOOLEAN :
           IF ~batch.dry_run /\ ~yes /\ ~confirmed
           THEN /\ exc' = Main_except(SystemExit(1))
                /\ exit_code' = exc'.code
                /\ pc' = "exited"
           ELSE IF ~token
           THEN /\ exc' = Main_except(Raise("ValueError"))
                /\ exit_code' = exc'.code
                /\ pc' = "exited"
           ELSE /\ pc' = "apply"
                /\ UNCHANGED <<exc, exit_code>>
    /\ UNCHANGED <<issue, gaps, report, ticket, calls, workers, batch>>

\* apply_decisions: one iteration of the loop over the decisions
ApplyDecision ==
    /\ pc = "apply"
    /\ batch.next <= Len(batch.decisions)
    /\ \E answer \in TrackerAnswers :
           LET d == batch.decisions[batch.next]
               known == d.decision \in { <<"C", "L", "O", "S", "E">>, <<"U", "N", "B", "L", "O", "C", "K">>, <<"D", "O", "C", "U", "M", "E", "N", "T">> }
               done == IF d.decision = <<"C", "L", "O", "S", "E">>
                       THEN apply_decision_close(d.key, batch.dry_run, answer)
                       ELSE IF d.decision = <<"U", "N", "B", "L", "O", "C", "K">>
                       THEN apply_decision_unblock(d.key, batch.dry_run, answer)
                       ELSE IF d.decision = <<"D", "O", "C", "U", "M", "E", "N", "T">>
                       THEN apply_decision_document(d.key, batch.dry_run, answer)
                       ELSE [ops |-> << >>, success |-> FALSE]
           IN  /\ calls' = calls \o done.ops
               /\ batch' = [batch EXCEPT
                      !.next = @ + 1,
                      !.stats = IF ~known THEN [@ EXCEPT !.skipped = @ + 1]
                                ELSE IF done.success THEN [@ EXCEPT !.success = @ + 1]
                                ELSE [@ EXCEPT !.failed = @ + 1]]
    /\ UNCHANGED <<issue, pc, gaps, report, ticket, exc, exit_code, workers>>

\* main: the summary and "sys.exit(0 if stats['failed'] == 0 else 1)"
ApplySummary ==
    /\ pc = "apply"
    /\ batch.next > Len(batch.decisions)
    /\ exc' = Main_except(SystemExit(IF batch.stats.failed = 0 THEN 0 ELSE 1))
    /\ exit_code' = exc'.code
    /\ pc' = "exited"
    /\ UNCHANGED <<issue, gaps, report, ticket, calls, workers, batch>>

NextCsv == ReadDecisions \/ ConfirmAndConnect \/ ApplyDecision \/ ApplySummary

SpecCsv == InitCsv /\ [][NextCsv]_vars

-----------------------------------------------------------------------------
(* format_report *)

\* analyze_readiness.format_report: the line under the scores
Std_tier_label(total_score) ==
    IF total_score >= 90 THEN "READY FOR POINTING - Excellent readiness"
    ELSE IF total_score >= 75 THEN "MOSTLY READY - Minor clarifications needed"
    ELSE IF total_score >= 60 THEN "NOT READY - Some gaps to address"
    ELSE "NOT READY - Significant work needed"

\* analyze_readiness_fsec.format_report: the line under the scores
FSEC_tier_label(total_score) ==
    IF total_score >= 80 THEN "EXCELLENT - Ready for pointing"
    ELSE IF total_score >= 60 THEN "GOOD ENOUGH - Ready for pointing (FSEC threshold)"
    ELSE IF total_score >= 45 THEN "NEEDS WORK - Address gaps before pointing"
    ELSE "NOT READY - Significant gaps to address"

\* "high_gaps[:3]", as titles
FirstHighTitles(gap_list) ==
    LET high_gaps == SelectSeq(gap_list, LAMBDA g : g.severity = "HIGH")
    IN  [i \in 1..Min(3, Len(high_gaps)) |-> high_gaps[i].title]

\* analyze_readiness.format_report: the lines under the "Recommendation:" heading
Std_recommendation(r) ==
    IF r.ready_for_pointing
    THEN << "This ticket is ready for pointing. Minor gaps can be addressed during planning." >>
    ELSE IF FirstHighTitles(r.gaps) # << >>
    THEN << "Address HIGH severity gaps before pointing:" >> \o FirstHighTitles(r.gaps)
    ELSE << >>

\* analyze_readiness_fsec.format_report: the lines under the "Recommendation:" heading
FSEC_recommendation(r) ==
    IF r.ready_for_pointing
    THEN << "This ticket meets FSEC's baseline for pointing." >>
         \o (IF r.total_score < 80
             THEN << "Consider addressing gaps for even better clarity." >> ELSE << >>)
    ELSE IF FirstHighTitles(r.gaps) # << >>
    THEN << "Address these gaps before pointing:" >> \o FirstHighTitles(r.gaps)
    ELSE << >>

-----------------------------------------------------------------------------
(* Dependencies and type exemptions *)

\* the texts of the tickets that hold dependency language (depends on, blocked
\* by, requires, needs, after, as whole words in any case) or an issue key
DepTexts ==
    { <<"a", "f", "t", "e", "r", " ", "t", "e", "s", "t">>, <<"n", "e", "e", "d", "s", " ", "y">>, <<"F", "S", "E", "C", "-", "1">>, <<"B", "l", "o", "c", "k", "e", "d", " ", "B", "y", " ", "z">>, <<"r", "e", "q", "u", "i", "r", "e", "s", " ", "q">> }

\* summary, description or a comment of the ticket mentions a dependency
DepMention ==
    \/ issue.summary \in DepTexts
    \/ issue.description \in DepTexts
    \/ \E i \in 1..Len(issue.comments) : issue.comments[i] \in DepTexts

\* C21: the standard report holds the 'Missing Dependencies' gap exactly when
\* the combined text (summary, description, comments) holds dependency
\* language or a bare issue key and the ticket has no linked issue; a ticket
\* with a linked issue never gets the gap.  The gap is MEDIUM, technical.
C21_Dependencies ==
    StdDone =>
        /\ HasGap(report.gaps, "Missing Dependencies")
               = (DepMention /\ Len(issue.issuelinks) = 0)
        /\ \A i \in 1..Len(report.gaps) :
               report.gaps[i].title = "Missing Dependencies" =>
                   report.gaps[i].severity = "MEDIUM" /\ report.gaps[i].category = "technical"

\* C21 witness: the only dependency mention is an issue key in the
\* description, there is no link, and the gap is reported
C21_Witness ==
    /\ StdDone
    /\ issue.summary = <<"f", "i", "x">>
    /\ issue.description = <<"F", "S", "E", "C", "-", "1">>
    /\ issue.comments = << >>
    /\ issue.issuelinks = << >>
    /\ HasGap(report.gaps, "Missing Dependencies")

\* the issue types of the tickets that are bug, incident or hotfix in any case
BugLikeWritten == { <<"B", "u", "g">>, <<"B", "U", "G">>, <<"I", "n", "c", "i", "d", "e", "n", "t">>, <<"h", "o", "t", "f", "i", "x">> }

\* the issue types of the tickets that are spike or research in any case
SpikeLikeWritten == { <<"S", "p", "i", "k", "e">>, <<"R", "E", "S", "E", "A", "R", "C", "H">> }

\* C22: whatever the text, the standard report of a ticket of type bug,
\* incident or hotfix (in any case) holds neither 'Missing Acceptance
\* Criteria' nor 'No Technical Context', the standard report of a spike or
\* research ticket holds no 'No Test Scenarios', and the FSEC report of a
\* spike or research ticket holds no 'Limited AWS Context'.
C22_TypeExempt ==
    /\ (StdDone /\ issue.issuetype \in BugLikeWritten) =>
           /\ ~HasGap(report.gaps, "Missing Acceptance Criteria")
           /\ ~HasGap(report.gaps, "No Technical Context")
    /\ (StdDone /\ issue.issuetype \in SpikeLikeWritten) =>
           ~HasGap(report.gaps, "No Test Scenarios")
    /\ (FSECDone /\ issue.issuetype \in SpikeLikeWritten) =>
           ~HasGap(report.gaps, "Limited AWS Context")

\* C22 witness: a ticket of type 'BUG' with an empty description, whose
\* standard report has neither of the two gaps
C22_Witness ==
    /\ StdDone
    /\ issue.issuetype = <<"B", "U", "G">>
    /\ issue.description = << >>
    /\ ~HasGap(report.gaps, "Missing Acceptance Criteria")
    /\ ~HasGap(report.gaps, "No Technical Context")

-----------------------------------------------------------------------------
(* Dry run of apply_decisions_csv *)

\* the Decision cells that read as CLOSE, UNBLOCK or DOCUMENT
ActionCells == { <<"C", "L", "O", "S", "E">>, <<" ", "c", "l", "o", "s", "e", " ">>, <<"U", "N", "B", "L", "O", "C", "K">>, <<"D", "O", "C", "U", "M", "E", "N", "T">> }

\* the number of rows of the file with a decision to act on
NumActionRows ==
    Cardinality({i \in 1..Len(batch.rows) : batch.rows[i].Decision \in ActionCells})

\* ... of which the key is not blank
NumKeyedActionRows ==
    Cardinality({i \in 1..Len(batch.rows) :
                    /\ batch.rows[i].Decision \in ActionCells
                    /\ batch.rows[i].Key = <<"F", "S", "E", "C", "-", "1">>})

\* the loop of apply_decisions has run over all decisions
AllApplied == pc = "apply" /\ batch.next > Len(batch.decisions)

-----------------------------------------------------------------------------
(* The printed report against the verdict *)

\* the tier label format_report prints for the report of this run
TierLabel ==
    IF report.mode = "FSEC" THEN FSEC_tier_label(report.total_score)
    ELSE Std_tier_label(report.total_score)

ReadyTierLabels ==
    { "READY FOR POINTING - Excellent readiness",
      "MOSTLY READY - Minor clarifications needed",
      "EXCELLENT - Ready for pointing",
      "GOOD ENOUGH - Ready for pointing (FSEC threshold)" }

\* C24: a run that printed the label of a ready tier has a report with
\* ready_for_pointing true and ends with exit status 0.
C24_TierLabelAgrees ==
    (pc = "exited" /\ Analyzed /\ TierLabel \in ReadyTierLabels) =>
        (report.ready_for_pointing /\ exit_code = 0)

\* the lines format_report prints under "Recommendation:" for the report of this run
Recommendation ==
    IF report.mode = "FSEC" THEN FSEC_recommendation(report) ELSE Std_recommendation(report)

\* C25: a report that is not ready holds a HIGH gap, and its recommendation
\* names a gap.
C25_RecommendationNamesGap ==
    (pc = "done" /\ ~report.ready_for_pointing) =>
        /\ \E i \in 1..Len(report.gaps) : report.gaps[i].severity = "HIGH"
        /\ \E i \in 1..Len(report.gaps) :
               \E j \in 1..Len(Recommendation) : Recommendation[j] = report.gaps[i].title

-----------------------------------------------------------------------------
(* The requirements score *)

\* the gap list of this run holds a HIGH gap of the requirements category
HasHighRequirementsGap ==
    \E i \in 1..Len(gaps) : gaps[i].category = "requirements" /\ gaps[i].severity = "HIGH"

\* C26: under the standard profile a report with a HIGH requirements gap has a
\* requirements score of at most 45, below the floor of 50, and is not ready.
C26_HighRequirementsGapBlocks ==
    (StdDone /\ HasHighRequirementsGap) =>
        /\ report.requirements_score <= 45
        /\ report.requirements_score < StdRequirementsFloor
        /\ ~report.ready_for_pointing

\* C26 witness: a standard report with a HIGH requirements gap and every other
\* point, so that the total reaches the threshold and only the floor decides
C26_Witness ==
    /\ StdDone
    /\ HasHighRequirementsGap
    /\ report.requirements_score = 45
    /\ report.total_score = StdThreshold

-----------------------------------------------------------------------------
(* The FSEC profile on an empty description *)

\* C27: under the FSEC profile a ticket with an empty description has a
\* technical score of 0 and a total of at most 43, and is not ready, whatever
\* its summary, comments, links and type are.
C27_EmptyDescriptionNotReady ==
    (FSECDone /\ issue.description = << >>) =>
        /\ report.technical_score = 0
        /\ report.total_score <= 43
        /\ ~report.ready_for_pointing

\* C27 witness: the FSEC report of a ticket with an empty description and a
\* test keyword in its summary reaches the total of 43
C27_Witness ==
    /\ FSECDone
    /\ issue.description = << >>
    /\ report.technical_score = 0
    /\ report.total_score = 43

\* the number of requirements gaps of a severity in the gap list of this run
NumRequirementsGaps(severity) ==
    Cardinality({i \in 1..Len(gaps) :
                    gaps[i].category = "requirements" /\ gaps[i].severity = severity})

\* C28: for the gap lists the detectors produce, the requirements score is the
\* maximum less the deductions, never cut off at 0: one of 70, 60, 45, 35, 20,
\* 10 under the standard profile and one of 40, 25, 10 under the FSEC profile.
C28_NoLowerClamp ==
    /\ StdDone =>
           /\ report.requirements_score \in {70, 60, 45, 35, 20, 10}
           /\ report.requirements_score =
                  70 - 25 * NumRequirementsGaps("HIGH") - 10 * NumRequirementsGaps("MEDIUM")
    /\ FSECDone =>
           /\ report.requirements_score \in {40, 25, 10}
           /\ report.requirements_score =
                  40 - 15 * NumRequirementsGaps("HIGH") - 5 * NumRequirementsGaps("MEDIUM")

\* C28 witness: a standard report with the lowest requirements score, 10, from
\* two HIGH and one MEDIUM requirements gap
C28_Witness ==
    /\ StdDone
    /\ NumRequirementsGaps("HIGH") = 2
    /\ NumRequirementsGaps("MEDIUM") = 1
    /\ report.requirements_score = 10

-----------------------------------------------------------------------------
(* Monotonicity of the scores *)

\* the gap list of this run without its i-th gap
WithoutGap(i) == SubSeq(gaps, 1, i - 1) \o SubSeq(gaps, i + 1, Len(gaps))

\* the report of the same ticket for the gap list without its i-th gap
ReportWithoutGap(i) ==
    IF report.mode = "FSEC" THEN FSEC_report(issue, WithoutGap(i))
    ELSE Std_report(issue, WithoutGap(i))

\* C29: with the ticket text fixed, a gap list with one gap more never scores
\* higher in any category or in total than the list without that gap, and is
\* ready only if the list without it is; under either profile.
C29_Monotone ==
    (pc = "scored") =>
        \A i \in 1..Len(gaps) :
            LET without == ReportWithoutGap(i)
            IN  /\ report.requirements_score <= without.requirements_score
                /\ report.technical_score <= without.technical_score
                /\ report.testing_score <= without.testing_score
                /\ report.context_score <= without.context_score
                /\ report.total_score <= without.total_score
                /\ report.ready_for_pointing => without.ready_for_pointing

\* C29 witness: a report that is not ready for a gap list of three gaps, and
\* ready with a higher total for the list without one of them
C29_Witness ==
    /\ pc = "scored"
    /\ Len(gaps) = 3
    /\ ~report.ready_for_pointing
    /\ \E i \in 1..Len(gaps) :
           /\ ReportWithoutGap(i).ready_for_pointing
           /\ ReportWithoutGap(i).total_score > report.total_score

-----------------------------------------------------------------------------
(* One gap per detector *)

\* no two gaps of the gap list of this run have the same title
DistinctTitles ==
    \A i, j \in 1..Len(gaps) : gaps[i].title = gaps[j].title => i = j

\* C30: a report holds at most one gap of each detector: at most 7 gaps under
\* the standard profile and at most 6 under the FSEC profile, with titles that
\* differ pairwise.
C30_OneGapPerDetector ==
    /\ StdDone => (Len(gaps) <= 7 /\ Len(report.gaps) <= 7 /\ DistinctTitles)
    /\ FSECDone => (Len(gaps) <= 6 /\ Len(report.gaps) <= 6 /\ DistinctTitles)

\* C30 witness: a standard report in which each of the seven detectors has
\* left its gap
C30_Witness ==
    /\ StdDone
    /\ Len(report.gaps) = 7
    /\ DistinctTitles

====
